---- MODULE Spec2Model ----
(***************************************************************************)
(* LokerPuller: the ingestion pipeline (JobScraper.scrape_jobs), the       *)
(* validation helpers and the SQLite store (DatabaseManager) as a state    *)
(* machine.                                                                *)
(*                                                                         *)
(* Python strings are sequences of one-character strings, so that lower(), *)
(* strip() and the substring test `in` are computed, not assumed.          *)
(* Python values are records [kind, s, n]:                                 *)
(*   kind = "absent"  the key is not in the dict                           *)
(*   kind = "none"    None                                                 *)
(*   kind = "str"     a str, its characters in s                           *)
(*   kind = "num"     an int/float of ordinary size, its value in n        *)
(*   kind = "nan"     float('nan'), what pandas gives for a missing cell   *)
(*   kind = "bigint"  an int too large for float()                         *)
(***************************************************************************)
EXTENDS Integers, Sequences, FiniteSets, TLC

----------------------------------------------------------------------------
(* Python values *)

Absent == [kind |-> "absent", s |-> <<>>, n |-> 0]

PyNone == [kind |-> "none", s |-> <<>>, n |-> 0]

Str(s) == [kind |-> "str", s |-> s, n |-> 0]

Num(n) == [kind |-> "num", s |-> <<>>, n |-> n]

NaN == [kind |-> "nan", s |-> <<>>, n |-> 0]

BigInt == [kind |-> "bigint", s |-> <<>>, n |-> 0]

\* True and False
PyBool(b) == [kind |-> "bool", s |-> <<>>, n |-> IF b THEN 1 ELSE 0]

\* bool(v): None, '' and 0 are falsy; float('nan') and every other value are truthy
Truthy(v) ==
    CASE v.kind \in {"absent", "none"} -> FALSE
      [] v.kind = "str" -> v.s # <<>>
      [] v.kind \in {"num", "bool"} -> v.n # 0
      [] OTHER -> TRUE

\* dict.get(key): None when the key is missing
get(d, key) == IF d[key].kind = "absent" THEN PyNone ELSE d[key]

\* dict.get(key, default)
get_default(d, key, default) == IF d[key].kind = "absent" THEN default ELSE d[key]

----------------------------------------------------------------------------
(* str methods *)

UpperCase == <<"A","B","C","D","E","F","G","H","I","J","K","L","M",
               "N","O","P","Q","R","S","T","U","V","W","X","Y","Z">>

LowerCase == <<"a","b","c","d","e","f","g","h","i","j","k","l","m",
               "n","o","p","q","r","s","t","u","v","w","x","y","z">>

\* the lower-case letter of each upper-case letter
LowerOf == [c \in {UpperCase[i] : i \in DOMAIN UpperCase} |->
               LowerCase[CHOOSE i \in DOMAIN UpperCase : UpperCase[i] = c]]

ToLower(c) == IF c \in DOMAIN LowerOf THEN LowerOf[c] ELSE c

\* str.lower()
lower(s) == [i \in 1..Len(s) |-> ToLower(s[i])]

IsSpace(c) == c \in {" ", "\t", "\n"}

SetMin(S) == CHOOSE x \in S : \A y \in S : x <= y

SetMax(S) == CHOOSE x \in S : \A y \in S : x >= y

\* str.strip(): leading and trailing whitespace removed
strip(s) ==
    LET keep == {i \in 1..Len(s) : ~IsSpace(s[i])}
    IN  IF keep = {} THEN <<>> ELSE SubSeq(s, SetMin(keep), SetMax(keep))

\* sub in s
Contains(sub, s) ==
    \E k \in 0..(Len(s) - Len(sub)) : \A i \in 1..Len(sub) : s[k + i] = sub[i]

Digit == <<"0","1","2","3","4","5","6","7","8","9">>

RECURSIVE Digits(_)
\* decimal digits of a natural number
Digits(n) == IF n < 10 THEN <<Digit[n + 1]>> ELSE Digits(n \div 10) \o <<Digit[(n % 10) + 1]>>

\* str(v)
str(v) ==
    CASE v.kind = "str" -> v.s
      [] v.kind \in {"none", "absent"} -> <<"N","o","n","e">>
      [] v.kind = "nan" -> <<"n","a","n">>
      [] v.kind = "bool" -> IF v.n = 1 THEN <<"T","r","u","e">> ELSE <<"F","a","l","s","e">>
      [] OTHER -> Digits(v.n)

----------------------------------------------------------------------------
(* utils/constants.py *)

Indonesia == <<"I","n","d","o","n","e","s","i","a">>
Jakarta == <<"J","a","k","a","r","t","a">>
Surabaya == <<"S","u","r","a","b","a","y","a">>
Bandung == <<"B","a","n","d","u","n","g">>
Medan == <<"M","e","d","a","n">>
Malaysia == <<"M","a","l","a","y","s","i","a">>
KualaLumpur == <<"K","u","a","l","a"," ","L","u","m","p","u","r">>
Penang == <<"P","e","n","a","n","g">>
JohorBahru == <<"J","o","h","o","r"," ","B","a","h","r","u">>
Selangor == <<"S","e","l","a","n","g","o","r">>
Thailand == <<"T","h","a","i","l","a","n","d">>
Bangkok == <<"B","a","n","g","k","o","k">>
ChiangMai == <<"C","h","i","a","n","g"," ","M","a","i">>
Phuket == <<"P","h","u","k","e","t">>
Pattaya == <<"P","a","t","t","a","y","a">>
Vietnam == <<"V","i","e","t","n","a","m">>
HoChiMinhCity == <<"H","o"," ","C","h","i"," ","M","i","n","h"," ","C","i","t","y">>
Hanoi == <<"H","a","n","o","i">>
DaNang == <<"D","a"," ","N","a","n","g">>
Hue == <<"H","u","e">>
Singapore == <<"S","i","n","g","a","p","o","r","e">>

\* SEA_COUNTRIES.keys(), in insertion order
SEA_COUNTRY_KEYS == <<Indonesia, Malaysia, Thailand, Vietnam, Singapore>>

\* SEA_COUNTRIES[country]
SEA_COUNTRIES(country) ==
    CASE country = Indonesia -> <<Indonesia, Jakarta, Surabaya, Bandung, Medan>>
      [] country = Malaysia -> <<Malaysia, KualaLumpur, Penang, JohorBahru, Selangor>>
      [] country = Thailand -> <<Thailand, Bangkok, ChiangMai, Phuket, Pattaya>>
      [] country = Vietnam -> <<Vietnam, HoChiMinhCity, Hanoi, DaNang, Hue>>
      [] country = Singapore -> <<Singapore>>

Range(f) == {f[i] : i \in DOMAIN f}

\* city.lower() for every city of every country of SEA_COUNTRIES
SEA_CITIES_LOWER ==
    {lower(city) : city \in UNION {Range(SEA_COUNTRIES(country)) :
                                      country \in Range(SEA_COUNTRY_KEYS)}}

\* country.lower() for every key of SEA_COUNTRIES
SEA_KEYS_LOWER == {lower(country) : country \in Range(SEA_COUNTRY_KEYS)}

----------------------------------------------------------------------------
(* utils/validation.py *)

\* Outcome of a call: a returned value, or an exception
Ret(v) == [raised |-> FALSE, exc |-> "", value |-> v]

Raise(e) == [raised |-> TRUE, exc |-> e, value |-> FALSE]

\* a classifier that compares the aliases with the location as they are written
validate_sea_country_as_written(location) ==
    IF ~Truthy(location) THEN Ret(FALSE)
    ELSE IF location.kind # "str" THEN Raise("AttributeError")
    ELSE Ret(\E country \in Range(SEA_COUNTRY_KEYS) :
                \E city \in Range(SEA_COUNTRIES(country)) : Contains(city, location.s))

\* validate_sea_country(location): False for a falsy location, AttributeError for a
\* truthy value without .lower(), else whether some alias occurs in it, ignoring case
validate_sea_country(location) ==
    IF ~Truthy(location) THEN Ret(FALSE)
    ELSE IF location.kind # "str" THEN Raise("AttributeError")
    ELSE LET location_lower == lower(location.s)
         IN  Ret(\E city \in SEA_CITIES_LOWER : Contains(city, location_lower))

\* validation that accepts a location naming any city of SEA_COUNTRIES
validate_search_params_cities(search_term, location, results) ==
    IF ~Truthy(search_term) \/ strip(search_term.s) = <<>>
    THEN [is_valid |-> FALSE, error |-> "Search term cannot be empty"]
    ELSE IF ~Truthy(location) \/ strip(location.s) = <<>>
    THEN [is_valid |-> FALSE, error |-> "Location cannot be empty"]
    ELSE IF results <= 0
    THEN [is_valid |-> FALSE, error |-> "Results must be greater than 0"]
    ELSE IF results > 200
    THEN [is_valid |-> FALSE, error |-> "Results cannot exceed 200"]
    ELSE IF ~validate_sea_country(location).value
    THEN [is_valid |-> FALSE, error |-> "Location must be in Southeast Asia"]
    ELSE [is_valid |-> TRUE, error |-> ""]

\* validate_search_params(search_term, location, results) -> (is_valid, error_message)
validate_search_params(search_term, location, results) ==
    IF ~Truthy(search_term) \/ strip(search_term.s) = <<>>
    THEN [is_valid |-> FALSE, error |-> "Search term cannot be empty"]
    ELSE IF ~Truthy(location) \/ strip(location.s) = <<>>
    THEN [is_valid |-> FALSE, error |-> "Location cannot be empty"]
    ELSE IF results <= 0
    THEN [is_valid |-> FALSE, error |-> "Results must be greater than 0"]
    ELSE IF results > 200
    THEN [is_valid |-> FALSE, error |-> "Results cannot exceed 200"]
    ELSE IF ~\E country \in SEA_KEYS_LOWER : Contains(country, lower(location.s))
    THEN [is_valid |-> FALSE, error |-> "Location must be in Southeast Asia"]
    ELSE [is_valid |-> TRUE, error |-> ""]

\* float(value) in the numeric-field loop: ValueError and TypeError give None,
\* OverflowError is not caught
sanitize_numeric(value) ==
    CASE value.kind = "none" -> Ret(PyNone)
      [] value.kind = "num" -> Ret(value)
      [] value.kind = "nan" -> Ret(PyNone)
      [] value.kind = "bigint" -> Raise("OverflowError")
      [] OTHER -> Ret(PyNone)

\* optional string field: str(value).strip() if value is not None else None
sanitize_string(value) == IF value.kind = "none" THEN PyNone ELSE Str(strip(str(value)))

\* is_remote: 1 for True and for an int or str that reads 'true', '1' or 'yes', else 0
sanitize_is_remote(is_remote) ==
    CASE is_remote.kind = "bool" -> is_remote.n
      [] is_remote.kind \in {"num", "str"} ->
             IF lower(str(is_remote)) \in {<<"t","r","u","e">>, <<"1">>, <<"y","e","s">>}
             THEN 1 ELSE 0
      [] OTHER -> 0

\* sanitize_job_data(job_data), restricted to the modelled columns
sanitize_job_data(job_data) ==
    LET amount == sanitize_numeric(get(job_data, "min_amount"))
        max_amount == sanitize_numeric(get(job_data, "max_amount"))
    IN  IF amount.raised THEN Raise(amount.exc)
        ELSE IF max_amount.raised THEN Raise(max_amount.exc)
        ELSE Ret([site |-> strip(str(get_default(job_data, "site", Str(<<>>)))),
                  job_url |-> strip(str(get_default(job_data, "job_url", Str(<<>>)))),
                  title |-> strip(str(get_default(job_data, "title", Str(<<>>)))),
                  company_name |-> sanitize_string(get(job_data, "company_name")),
                  location |-> sanitize_string(get(job_data, "location")),
                  date_posted |-> sanitize_string(get(job_data, "date_posted")),
                  min_amount |-> amount.value,
                  max_amount |-> max_amount.value,
                  is_remote |-> sanitize_is_remote(get(job_data, "is_remote"))])

----------------------------------------------------------------------------
(* Bounds of the model *)

\* longest jobs_data list handed directly to insert_jobs
MaxLen == 2

\* the clock stops here
MaxTime == 1

\* hours between two readings of the clock
TickHours == 20

\* largest value of the AUTOINCREMENT sequence
MaxSeq == 3

\* records of the long jobs_data lists beyond one full batch
ChunkExtra == 2

\* largest value of the AUTOINCREMENT sequence when the long lists are inserted
MaxSeqLong == 120

\* longest site list of a scrape_jobs call
MaxSites == 2

\* largest value of the AUTOINCREMENT sequence when scrape_jobs calls insert
MaxSeqRun == 5

----------------------------------------------------------------------------
(* Inputs *)

indeed == <<"i","n","d","e","e","d">>

linkedin == <<"l","i","n","k","e","d","i","n">>

NewYork == <<"N","e","w"," ","Y","o","r","k">>

\* a scraped record with all the modelled keys
JobFull(site, job_url, title, company_name, location, date_posted, min_amount, max_amount, is_remote) ==
    [site |-> Str(site), job_url |-> Str(job_url), title |-> Str(title),
     company_name |-> company_name, location |-> location, date_posted |-> date_posted,
     min_amount |-> min_amount, max_amount |-> max_amount, is_remote |-> is_remote]

\* a scraped record without company, posting date, upper salary or remote flag
Job(site, job_url, title, location, min_amount) ==
    JobFull(site, job_url, title, Absent, location, Absent, min_amount, Absent, Absent)

\* a Singapore posting
JobA == Job(indeed, <<"u","1">>, <<"A">>, Str(Singapore), PyNone)

\* the same posting scraped again: padded url, other title, other place, a salary
JobA2 == Job(indeed, <<" ","u","1">>, <<"B">>, Str(lower(Jakarta)), Num(1000))

\* a posting outside the region
JobNY == Job(linkedin, <<"u","2">>, <<"A">>, Str(NewYork), PyNone)

\* a posting without a location key
JobNoLoc == Job(indeed, <<"u","2">>, <<"A">>, Absent, PyNone)

\* a posting whose location cell is NaN
JobNaN == Job(linkedin, <<"u","1">>, <<"A">>, NaN, PyNone)

\* a posting whose salary overflows float()
JobBig == Job(linkedin, <<"u","1">>, <<"B">>, Str(Singapore), BigInt)

JobUniverse == {JobA, JobA2, JobNY, JobNoLoc, JobNaN, JobBig}

RECURSIVE SeqsUpTo(_, _)
\* all sequences over S of length at most n
SeqsUpTo(S, n) ==
    IF n = 0 THEN {<<>>}
    ELSE LET shorter == SeqsUpTo(S, n - 1)
         IN  shorter \cup {Append(q, x) : q \in {r \in shorter : Len(r) = n - 1}, x \in S}

\* jobs_data lists of the direct insert_jobs calls
ShortInputs == SeqsUpTo(JobUniverse, MaxLen)

\* record i of a long list: record 2 is outside the region, the first record after a
\* full batch repeats the url of record 1, every other record is a posting of its own
LongJob(i, batch) ==
    IF i = 2 THEN JobNY
    ELSE Job(indeed, <<"j">> \o Digits(IF i = batch + 1 THEN 1 ELSE i), <<"A">>,
             Str(Singapore), PyNone)

----------------------------------------------------------------------------
(* State *)

VARIABLES
    jobs,            \* the committed rows of table jobs
    seq,             \* sqlite_sequence.seq of table jobs, committed
    now,             \* the clock in UTC (CURRENT_TIMESTAMP), in hours
    ipc,             \* insert_jobs: "idle", "loop", "commit", "done", "crashed", "raised"
    icaller,         \* who called insert_jobs: "direct" or "scrape_jobs"
    ijobs,           \* insert_jobs: jobs_data
    ipos,            \* insert_jobs: records of jobs_data processed so far
    itxn,            \* insert_jobs: its connection holds an open write transaction
    itable,          \* insert_jobs: the table as its open transaction sees it
    iseq,            \* insert_jobs: sqlite_sequence.seq inside its open transaction
    inserted_count,  \* insert_jobs: local inserted_count, the value returned
    skipped_count,   \* insert_jobs: local skipped_count
    ilog,            \* history: what happened to each processed record
    iadded,          \* history: the rows this call has committed to the store
    isecond,         \* history: this call repeats the previous one, nothing in between
    icount0,         \* history: the row count when the previous call returned
    out,             \* the value the last finished read or cleanup returned
    rpc,             \* scrape_jobs: "idle", "site", "pause", "summary", "insert",
                     \*              "returned", "raised"
    rargs,           \* scrape_jobs: search_term, location, results_per_site, sites
    rsite,           \* scrape_jobs: index i of the site being processed, from 1
    all_jobs,        \* scrape_jobs: all_jobs
    rret,            \* scrape_jobs: the value returned
    rexc,            \* scrape_jobs: the exception that left it, "" if none
    rlog,            \* history: per site processed, what the scrape gave and kept
    insert_calls,    \* history: calls of insert_jobs made by this scrape_jobs call
    pauses,          \* history: time.sleep(site_delay) calls of this scrape_jobs call
    dpc,             \* run_daily_scraping: "idle", "job", "wait", "term_delay",
                     \*                     "country_delay", "summary", "returned", "raised"
    country_idx,     \* run_daily_scraping: country_idx, from 1
    term_idx,        \* run_daily_scraping: term_idx, from 1
    total_jobs,      \* run_daily_scraping: total_jobs
    successful_jobs, \* run_daily_scraping: successful_jobs
    failed_jobs,     \* run_daily_scraping: failed_jobs
    dret,            \* run_daily_scraping: the dictionary returned
    dlog,            \* history: the calls of scrape_jobs made by run_scraping_job
    delays,          \* history: the time.sleep calls of run_daily_scraping
    mout,            \* how the last maintenance routine ended, and what failed in it
    log_files,       \* the *.log files of the log directory: their mtimes, in hours
    stats,           \* the stats dictionary get_statistics fills, and where the call is
    settings,        \* the Settings instance the process created from its environment
    other            \* a second call of insert_jobs, made by another thread or process

storeVars == <<jobs, seq, now>>

runVars == <<rpc, rargs, rsite, all_jobs, rret, rexc, rlog, insert_calls, pauses>>

maintVars == <<mout, log_files>>

schedVars == <<dpc, country_idx, term_idx, total_jobs, successful_jobs, failed_jobs,
               dret, dlog, delays, maintVars, stats, settings, other>>

vars == <<jobs, seq, now, ipc, icaller, ijobs, ipos, itxn, itable, iseq,
          inserted_count, skipped_count, ilog, iadded, isecond, icount0, out,
          rpc, rargs, rsite, all_jobs, rret, rexc, rlog, insert_calls, pauses,
          dpc, country_idx, term_idx, total_jobs, successful_jobs, failed_jobs,
          dret, dlog, delays, mout, log_files, stats, settings, other>>

NoMaintenance == [op |-> "none", fault |-> "none", raised |-> FALSE]

\* a float quotient num / den, kept exact
Quotient(num, den) == [num |-> num, den |-> den]

\* num / den in Python: ZeroDivisionError if den is 0
Divide(num, den) ==
    IF den = 0 THEN Raise("ZeroDivisionError") ELSE Ret(Quotient(num, den))

\* the number 0
Zero == Quotient(0, 1)

\* salary_stats when no row has salary data
NoSalaryStats ==
    [avg_min_salary |-> Zero, avg_max_salary |-> Zero, min_salary |-> Num(0),
     max_salary |-> Num(0), jobs_with_salary |-> 0, percentage_with_salary |-> Zero]

\* no call of get_statistics yet
NoStats ==
    [pc |-> "idle", raised |-> "", total_jobs |-> 0, jobs_by_country |-> {},
     jobs_by_site |-> {}, remote_percentage |-> Zero, salary_stats |-> NoSalaryStats]

NoSummary == [total_jobs |-> 0, successful_jobs |-> 0, failed_jobs |-> 0,
              success_rate |-> [num |-> 0, den |-> 1]]

NoArgs == [search_term |-> PyNone, location |-> PyNone, results_per_site |-> 0,
           sites |-> <<>>]

NoOut == [op |-> "none", count |-> 0, rows |-> <<>>]

\* the whole number a text of digits reads as, after acc
RECURSIVE ParseDigits(_, _)
ParseDigits(s, acc) ==
    IF s = <<>> THEN acc
    ELSE ParseDigits(Tail(s), 10 * acc + (CHOOSE d \in 0..9 : Digit[d + 1] = Head(s)))

\* no second call of insert_jobs
NoOther == [pc |-> "idle", jobs_data |-> <<>>, pos |-> 0, txn |-> FALSE, table |-> {}, seq |-> 0, inserted_count |-> 0]

\* os.environ, the variables of the delays: text, or Absent when unset
Environ(batch_delay, site_delay, country_delay) == [BATCH_DELAY |-> batch_delay, SITE_DELAY |-> site_delay, COUNTRY_DELAY |-> country_delay]

NoEnviron == Environ(Absent, Absent, Absent)

\* int(os.getenv(name, default)) of a variable that is unset or holds digits
getenv_int(value, default) == IF value.kind = "absent" THEN default ELSE ParseDigits(value.s, 0)

\* Settings.from_env(), the delays: the environment overrides the defaults
from_env(environ) ==
    [batch_delay |-> getenv_int(environ.BATCH_DELAY, 10),
     site_delay |-> getenv_int(environ.SITE_DELAY, 30),
     country_delay |-> getenv_int(environ.COUNTRY_DELAY, 60)]

InitProgram ==
    /\ jobs = {}
    /\ seq = 0
    /\ now = 0
    /\ ipc = "idle"
    /\ icaller = "direct"
    /\ ijobs = <<>>
    /\ ipos = 0
    /\ itxn = FALSE
    /\ itable = {}
    /\ iseq = 0
    /\ inserted_count = 0
    /\ skipped_count = 0
    /\ ilog = <<>>
    /\ iadded = {}
    /\ isecond = FALSE
    /\ icount0 = 0
    /\ out = NoOut
    /\ rpc = "idle"
    /\ rargs = NoArgs
    /\ rsite = 0
    /\ all_jobs = <<>>
    /\ rret = 0
    /\ rexc = ""
    /\ rlog = <<>>
    /\ insert_calls = 0
    /\ pauses = <<>>
    /\ dpc = "idle"
    /\ country_idx = 0
    /\ term_idx = 0
    /\ total_jobs = 0
    /\ successful_jobs = 0
    /\ failed_jobs = 0
    /\ dret = NoSummary
    /\ dlog = <<>>
    /\ delays = <<>>
    /\ mout = NoMaintenance
    /\ log_files = {}
    /\ stats = NoStats
    /\ other = NoOther

\* the state after construction; no settings have been read yet
Init ==
    /\ InitProgram
    /\ settings = PyNone

\* time passes
Tick ==
    /\ now < MaxTime * TickHours
    /\ now' = now + TickHours
    /\ UNCHANGED <<jobs, seq, ipc, icaller, ijobs, ipos, itxn, itable, iseq,
                   inserted_count, skipped_count, ilog, iadded, isecond, icount0, out,
                   runVars, schedVars>>

----------------------------------------------------------------------------
(* database/manager.py: insert_jobs *)

\* batch_size = 50
batch_size == 50

\* UNIQUE(job_url, site)
SameKey(r, values) == r.job_url = values.job_url /\ r.site = values.site

\* the row INSERT stores: id from AUTOINCREMENT, scraped_at DEFAULT CURRENT_TIMESTAMP
NewRow(id, values, t) ==
    [id |-> id, site |-> values.site, job_url |-> values.job_url, title |-> values.title,
     company_name |-> values.company_name, location |-> values.location,
     date_posted |-> values.date_posted, min_amount |-> values.min_amount,
     max_amount |-> values.max_amount, is_remote |-> values.is_remote, scraped_at |-> t]

\* INSERT OR REPLACE: the conflicting row is deleted and the new one stored
InsertOrReplace(table, s, values, t) ==
    [table |-> {r \in table : ~SameKey(r, values)} \cup {NewRow(s + 1, values, t)},
     seq |-> s + 1, rowcount |-> 1, id |-> s + 1]

\* an upsert: the conflicting row keeps its id and takes the new columns
InsertOrUpdate(table, s, values, t) ==
    IF \E r \in table : SameKey(r, values)
    THEN [table |-> {IF SameKey(r, values) THEN NewRow(r.id, values, r.scraped_at) ELSE r
                        : r \in table},
          seq |-> s + 1, rowcount |-> 0, id |-> 0]
    ELSE [table |-> table \cup {NewRow(s + 1, values, t)}, seq |-> s + 1,
          rowcount |-> 1, id |-> s + 1]

\* INSERT into a table without the UNIQUE constraint
InsertNoUnique(table, s, values, t) ==
    [table |-> table \cup {NewRow(s + 1, values, t)}, seq |-> s + 1,
     rowcount |-> 1, id |-> s + 1]

\* INSERT OR IGNORE INTO jobs (...) VALUES (...): a row with the same (job_url, site)
\* makes it a no-op with rowcount 0; the AUTOINCREMENT sequence advances either way
InsertOrIgnore(table, s, values, t) ==
    IF \E r \in table : SameKey(r, values)
    THEN [table |-> table, seq |-> s + 1, rowcount |-> 0, id |-> 0]
    ELSE [table |-> table \cup {NewRow(s + 1, values, t)}, seq |-> s + 1,
          rowcount |-> 1, id |-> s + 1]

\* the guard of the skip: job_data.get('location') and not validate_sea_country(...)
LocationCheck(job_data) ==
    IF ~Truthy(get(job_data, "location")) THEN Ret(FALSE)
    ELSE LET v == validate_sea_country(job_data["location"])
         IN  IF v.raised THEN v ELSE Ret(~v.value)

\* no handler: the exception leaves insert_jobs
OnRecordErrorRaise(exc) == "raise"

\* except Exception as e: log and continue with the next record
OnRecordError(exc) == "continue"

\* inserted_count += 1 whatever the rowcount
CountAttempted(count, rowcount) == count + 1

\* if cursor.rowcount > 0: inserted_count += 1
CountInserted(count, rowcount) == IF rowcount > 0 THEN count + 1 ELSE count

\* conn.commit() after every record
CommitDueEveryRecord(pos, n) == TRUE

\* conn.commit() runs when the inner loop over jobs_data[i:i + batch_size] ends:
\* after record pos of n when pos closes a batch or is the last record
CommitDue(pos, n) == pos % batch_size = 0 \/ pos = n

\* what the connection of insert_jobs reads: its transaction, or the committed table
IView == IF itxn THEN itable ELSE jobs

ISeq == IF itxn THEN iseq ELSE seq

\* insert_jobs(jobs_data) is called: early return on an empty list, else connect
insert_jobs_begin(jobs_data, caller, cap) ==
    /\ ipc = "idle"
    /\ seq + Len(jobs_data) <= cap
    /\ icaller' = caller
    /\ ijobs' = jobs_data
    /\ ipos' = 0
    /\ itxn' = FALSE
    /\ itable' = {}
    /\ iseq' = 0
    /\ inserted_count' = 0
    /\ skipped_count' = 0
    /\ ilog' = <<>>
    /\ iadded' = {}
    /\ isecond' = FALSE
    /\ icount0' = 0
    /\ ipc' = IF jobs_data = <<>> THEN "done" ELSE "loop"
    /\ UNCHANGED <<storeVars, out>>

\* insert_jobs(jobs_data) called on the DatabaseManager itself
insert_jobs_direct(jobs_data, cap) ==
    /\ rpc = "idle"
    /\ insert_jobs_begin(jobs_data, "direct", cap)
    /\ UNCHANGED <<runVars, schedVars>>

\* the caller takes the returned inserted_count and calls insert_jobs again at once
\* with the same jobs_data
insert_jobs_again ==
    /\ ipc = "done"
    /\ icaller = "direct"
    /\ ~isecond
    /\ seq + Len(ijobs) <= MaxSeq
    /\ ipos' = 0
    /\ inserted_count' = 0
    /\ skipped_count' = 0
    /\ ilog' = <<>>
    /\ iadded' = {}
    /\ isecond' = TRUE
    /\ icount0' = Cardinality(jobs)
    /\ ipc' = IF ijobs = <<>> THEN "done" ELSE "loop"
    /\ UNCHANGED <<storeVars, icaller, ijobs, itxn, itable, iseq, out, runVars, schedVars>>

\* one pass of `for job_data in batch`; the INSERT waits while another connection
\* holds the write lock
insert_jobs_record ==
    /\ ipc = "loop"
    /\ LET job_data == ijobs[ipos + 1]
           check == LocationCheck(job_data)
           sanitized == sanitize_job_data(job_data)
           done == InsertOrIgnore(IView, ISeq, sanitized.value, now)
           failed == check.raised \/ (~check.value /\ sanitized.raised)
           skip == ~check.raised /\ check.value
           next == IF CommitDue(ipos + 1, Len(ijobs)) THEN "commit" ELSE "loop"
       IN  /\ ipos' = ipos + 1
           /\ IF failed
              THEN /\ ilog' = Append(ilog, [outcome |-> "error", id |-> 0])
                   /\ ipc' = IF OnRecordError("Exception") = "continue" THEN next ELSE "raised"
                   /\ UNCHANGED <<itxn, itable, iseq, inserted_count, skipped_count>>
              ELSE IF skip
              THEN /\ ilog' = Append(ilog, [outcome |-> "skipped", id |-> 0])
                   /\ skipped_count' = skipped_count + 1
                   /\ ipc' = next
                   /\ UNCHANGED <<itxn, itable, iseq, inserted_count>>
              ELSE /\ ~other.txn
                   /\ itxn' = TRUE
                   /\ itable' = done.table
                   /\ iseq' = done.seq
                   /\ inserted_count' = CountInserted(inserted_count, done.rowcount)
                   /\ ilog' = Append(ilog, [outcome |-> IF done.id # 0 THEN "inserted"
                                                                      ELSE "duplicate",
                                            id |-> done.id])
                   /\ ipc' = next
                   /\ UNCHANGED skipped_count
    /\ UNCHANGED <<storeVars, icaller, ijobs, iadded, isecond, icount0, out, runVars, schedVars>>

\* conn.commit() at the end of a batch, then the next batch or conn.close() and return
insert_jobs_commit ==
    /\ ipc = "commit"
    /\ jobs' = IView
    /\ seq' = ISeq
    /\ iadded' = iadded \cup (IView \ jobs)
    /\ itxn' = FALSE
    /\ itable' = {}
    /\ iseq' = 0
    /\ ipc' = IF ipos = Len(ijobs) THEN "done" ELSE "loop"
    /\ UNCHANGED <<now, icaller, ijobs, ipos, inserted_count, skipped_count, ilog,
                   isecond, icount0, out, runVars, schedVars>>

\* the process dies inside insert_jobs: the open transaction is rolled back
insert_jobs_crash ==
    /\ ipc \in {"loop", "commit"}
    /\ ipc' = "crashed"
    /\ itxn' = FALSE
    /\ itable' = {}
    /\ iseq' = 0
    /\ UNCHANGED <<storeVars, icaller, ijobs, ipos, inserted_count, skipped_count, ilog,
                   iadded, isecond, icount0, out, runVars, schedVars>>

\* a direct caller takes the returned inserted_count; a dead process is restarted
insert_jobs_return ==
    /\ \/ ipc = "done" /\ icaller = "direct"
       \/ ipc \in {"crashed", "raised"}
    /\ ipc' = "idle"
    /\ icaller' = "direct"
    /\ ijobs' = <<>>
    /\ ipos' = 0
    /\ itxn' = FALSE
    /\ itable' = {}
    /\ iseq' = 0
    /\ inserted_count' = 0
    /\ skipped_count' = 0
    /\ ilog' = <<>>
    /\ iadded' = {}
    /\ isecond' = FALSE
    /\ icount0' = 0
    /\ UNCHANGED <<storeVars, out, runVars, schedVars>>

----------------------------------------------------------------------------
(* database/manager.py: insert_jobs called a second time while a call is running *)

\* the record makes insert_jobs run its INSERT: it is not skipped and is sanitized
Inserts(job_data) ==
    /\ ~LocationCheck(job_data).raised
    /\ ~LocationCheck(job_data).value
    /\ ~sanitize_job_data(job_data).raised

\* the INSERT of the running call has waited for the write lock of the second call
\* longer than the timeout of sqlite3.connect: OperationalError, database is locked;
\* the handler of the record logs it and goes on with the next record
insert_jobs_locked ==
    /\ ipc = "loop"
    /\ Inserts(ijobs[ipos + 1])
    /\ other.txn
    /\ ipos' = ipos + 1
    /\ ilog' = Append(ilog, [outcome |-> "error", id |-> 0])
    /\ ipc' = IF CommitDue(ipos + 1, Len(ijobs)) THEN "commit" ELSE "loop"
    /\ UNCHANGED <<storeVars, icaller, ijobs, itxn, itable, iseq, inserted_count,
                   skipped_count, iadded, isecond, icount0, out, runVars, schedVars>>

\* what the second call leaves alone
otherUnchanged ==
    <<now, ipc, icaller, ijobs, ipos, itxn, itable, iseq, inserted_count, skipped_count,
      ilog, iadded, isecond, icount0, out, runVars, dpc, country_idx, term_idx,
      total_jobs, successful_jobs, failed_jobs, dret, dlog, delays, maintVars, stats,
      settings>>

\* the second call of insert_jobs(jobs_data) starts on a connection of its own
insert_jobs_other_begin(jobs_data) ==
    /\ other.pc = "idle"
    /\ jobs_data # <<>>
    /\ other' = [NoOther EXCEPT !.pc = "loop", !.jobs_data = jobs_data]
    /\ UNCHANGED <<jobs, seq, otherUnchanged>>

\* one pass of `for job_data in batch` in the second call
insert_jobs_other_record ==
    /\ other.pc = "loop"
    /\ LET job_data == other.jobs_data[other.pos + 1]
           view == IF other.txn THEN other.table ELSE jobs
           s == IF other.txn THEN other.seq ELSE seq
           done == InsertOrIgnore(view, s, sanitize_job_data(job_data).value, now)
           next == IF CommitDue(other.pos + 1, Len(other.jobs_data)) THEN "commit"
                   ELSE "loop"
       IN  IF ~Inserts(job_data)
           THEN other' = [other EXCEPT !.pos = other.pos + 1, !.pc = next]
           ELSE /\ ~itxn
                /\ other' = [other EXCEPT
                                !.pos = other.pos + 1,
                                !.pc = next,
                                !.txn = TRUE,
                                !.table = done.table,
                                !.seq = done.seq,
                                !.inserted_count =
                                    CountInserted(other.inserted_count, done.rowcount)]
    /\ UNCHANGED <<jobs, seq, otherUnchanged>>

\* the INSERT of the second call has waited for the write lock of the running call
\* longer than the timeout: the record is logged as an error and left out
insert_jobs_other_locked ==
    /\ other.pc = "loop"
    /\ Inserts(other.jobs_data[other.pos + 1])
    /\ itxn
    /\ other' = [other EXCEPT
                    !.pos = other.pos + 1,
                    !.pc = IF CommitDue(other.pos + 1, Len(other.jobs_data))
                           THEN "commit" ELSE "loop"]
    /\ UNCHANGED <<jobs, seq, otherUnchanged>>

\* conn.commit() of the second call at the end of a batch, then the next batch or
\* conn.close() and return inserted_count
insert_jobs_other_commit ==
    /\ other.pc = "commit"
    /\ jobs' = IF other.txn THEN other.table ELSE jobs
    /\ seq' = IF other.txn THEN other.seq ELSE seq
    /\ other' = [other EXCEPT
                    !.pc = IF other.pos = Len(other.jobs_data) THEN "done" ELSE "loop",
                    !.txn = FALSE, !.table = {}, !.seq = 0]
    /\ UNCHANGED otherUnchanged

\* the record lists of the two calls: a posting, its rescrape under a padded url, a
\* posting without location, one outside the region
FirstInputs == {<<JobA>>, <<JobA, JobNoLoc>>, <<JobNY, JobA2>>}

SecondInputs == {<<JobA2>>, <<JobNoLoc, JobA>>, <<JobA, JobNY>>}

\* two calls of insert_jobs on an empty store, each on its own connection, their
\* records interleaved in every way
NextConcurrent ==
    \/ \E jobs_data \in FirstInputs : insert_jobs_direct(jobs_data, MaxSeqRun)
    \/ insert_jobs_record
    \/ insert_jobs_locked
    \/ insert_jobs_commit
    \/ \E jobs_data \in SecondInputs : insert_jobs_other_begin(jobs_data)
    \/ insert_jobs_other_record
    \/ insert_jobs_other_locked
    \/ insert_jobs_other_commit

SpecConcurrent == Init /\ [][NextConcurrent]_vars

----------------------------------------------------------------------------
(* database/manager.py: the other operations *)

\* retention periods passed to cleanup_old_jobs, in days
CleanupDays == {0, 1}

\* hours by which the local clock of a process with TZ=UTC is ahead of UTC
UTC == 0

\* hours by which the local clock of a process with TZ=Asia/Jakarta is ahead of UTC
AsiaJakarta == 7

\* the time zones of the process
UtcOffsets == {UTC, AsiaJakarta}

\* datetime.now(): the local time, naive
datetime_now(utc_offset) == now + utc_offset

\* timedelta(days=days), in hours
timedelta(days) == 24 * days

\* the rows of DELETE FROM jobs WHERE scraped_at < ?, with
\* cutoff_date = datetime.now() - timedelta(days=days) as the parameter
OldJobs(table, days, utc_offset) ==
    LET cutoff_date == datetime_now(utc_offset) - timedelta(days)
    IN  {r \in table : r.scraped_at < cutoff_date}

\* cleanup_old_jobs(days): DELETE FROM jobs WHERE scraped_at < cutoff_date, commit,
\* return cursor.rowcount. A write transaction of another connection holds the
\* database lock, so the DELETE runs only when none is open.
cleanup_old_jobs(days, utc_offset) ==
    /\ ~itxn
    /\ ipc \in {"idle", "loop"}
    /\ LET old == OldJobs(jobs, days, utc_offset)
       IN  /\ jobs' = jobs \ old
           /\ out' = [op |-> "cleanup_old_jobs", count |-> Cardinality(old), rows |-> <<>>,
                      days |-> days]
    /\ isecond' = FALSE
    /\ UNCHANGED <<seq, now, ipc, icaller, ijobs, ipos, itxn, itable, iseq,
                   inserted_count, skipped_count, ilog, iadded, icount0, runVars, schedVars>>

\* the characters in use, by ascending code point: the order of the BINARY collation
CodePoints == <<" ","%",",","0","1","2","3","4","5","6","7","8","9","A","B","C","D","E","F","G","H","I","J","K","L","M","N","O","P","Q","R","S","T","U","V","W","X","Y","Z","_","a","b","c","d","e","f","g","h","i","j","k","l","m","n","o","p","q","r","s","t","u","v","w","x","y","z">>

Ord == [c \in Range(CodePoints) |-> CHOOSE i \in DOMAIN CodePoints : CodePoints[i] = c]

RECURSIVE TextLess(_, _)
\* s < t for two TEXT values
TextLess(s, t) ==
    IF t = <<>> THEN FALSE
    ELSE IF s = <<>> THEN TRUE
    ELSE IF Head(s) = Head(t) THEN TextLess(Tail(s), Tail(t))
    ELSE Ord[Head(s)] < Ord[Head(t)]

RECURSIVE Like(_, _)
\* text LIKE pattern: % matches any run of characters, _ any one character, letters
\* match without regard to case
Like(pattern, text) ==
    IF pattern = <<>> THEN text = <<>>
    ELSE IF Head(pattern) = "%"
    THEN Like(Tail(pattern), text) \/ (text # <<>> /\ Like(pattern, Tail(text)))
    ELSE /\ text # <<>>
         /\ Head(pattern) = "_" \/ ToLower(Head(pattern)) = ToLower(Head(text))
         /\ Like(Tail(pattern), Tail(text))

\* column LIKE '%value%'; NULL matches nothing
LikeContains(column, value) ==
    column.kind = "str" /\ Like(<<"%">> \o str(value) \o <<"%">>, column.s)

\* text made of digits
IsDigits(s) == s # <<>> /\ \A i \in DOMAIN s : s[i] \in Range(Digit)

\* float(value) and int(value) of a request value: a number, or text made of digits
\* with or without a minus sign
ParseNumber(value) ==
    CASE value.kind \in {"num", "bool"} -> Ret(value.n)
      [] value.kind = "str" ->
             LET s == strip(value.s)
             IN  IF IsDigits(s) THEN Ret(ParseDigits(s, 0))
                 ELSE IF s # <<>> /\ Head(s) = "-" /\ IsDigits(Tail(s))
                 THEN Ret(0 - ParseDigits(Tail(s), 0))
                 ELSE Raise("ValueError")
      [] OTHER -> Raise("TypeError")

\* the names of the columns and of the sort directions
col_title == <<"t","i","t","l","e">>
col_company_name == <<"c","o","m","p","a","n","y","_","n","a","m","e">>
col_location == <<"l","o","c","a","t","i","o","n">>
col_min_amount == <<"m","i","n","_","a","m","o","u","n","t">>
col_max_amount == <<"m","a","x","_","a","m","o","u","n","t">>
col_date_posted == <<"d","a","t","e","_","p","o","s","t","e","d">>
col_scraped_at == <<"s","c","r","a","p","e","d","_","a","t">>
ASC == <<"A","S","C">>
DESC == <<"D","E","S","C">>
desc == <<"d","e","s","c">>

\* valid_sort_fields
valid_sort_fields == {col_title, col_company_name, col_location, col_min_amount, col_max_amount, col_date_posted, col_scraped_at}

\* str.upper()
upper(s) == [i \in 1..Len(s) |->
                IF \E k \in DOMAIN LowerCase : LowerCase[k] = s[i]
                THEN UpperCase[CHOOSE k \in DOMAIN LowerCase : LowerCase[k] = s[i]]
                ELSE s[i]]

\* a filters dictionary with the modelled keys
Filters(title, company, location, site, is_remote, min_salary, max_salary, days_old, sort_by, sort_order) ==
    [title |-> title, company |-> company, location |-> location, site |-> site,
     is_remote |-> is_remote, min_salary |-> min_salary, max_salary |-> max_salary,
     days_old |-> days_old, sort_by |-> sort_by, sort_order |-> sort_order]

\* filters = {}
NoFilters == Filters(Absent, Absent, Absent, Absent, Absent, Absent, Absent, Absent,
                     Absent, Absent)

\* the exception that building the query raises, "" if none: float() and int() of the
\* salary and days_old filters, then filters.get('sort_order', 'desc').upper()
SearchError(filters) ==
    IF Truthy(get(filters, "min_salary")) /\ ParseNumber(filters.min_salary).raised
    THEN ParseNumber(filters.min_salary).exc
    ELSE IF Truthy(get(filters, "max_salary")) /\ ParseNumber(filters.max_salary).raised
    THEN ParseNumber(filters.max_salary).exc
    ELSE IF Truthy(get(filters, "days_old")) /\ ParseNumber(filters.days_old).raised
    THEN ParseNumber(filters.days_old).exc
    ELSE IF get_default(filters, "sort_order", Str(desc)).kind # "str"
    THEN "AttributeError"
    ELSE ""

\* column >= value and column <= value; a NULL column satisfies neither
AtLeast(column, value) == column.kind = "num" /\ column.n >= value

AtMost(column, value) == column.kind = "num" /\ column.n <= value

\* the WHERE clause: the conditions of the truthy filters, joined by AND; local_now is
\* datetime.now() as read when the clause was built
Where(r, filters, local_now) ==
    /\ Truthy(get(filters, "title")) => LikeContains(Str(r.title), filters.title)
    /\ Truthy(get(filters, "company")) => LikeContains(r.company_name, filters.company)
    /\ Truthy(get(filters, "location")) => LikeContains(r.location, filters.location)
    /\ Truthy(get(filters, "site")) =>
           (filters.site.kind = "str" /\ r.site = filters.site.s)
    /\ Truthy(get(filters, "is_remote")) =>
           r.is_remote = (IF lower(str(filters.is_remote)) = <<"t","r","u","e">>
                          THEN 1 ELSE 0)
    /\ Truthy(get(filters, "min_salary")) =>
           \/ AtLeast(r.min_amount, ParseNumber(filters.min_salary).value)
           \/ AtLeast(r.max_amount, ParseNumber(filters.min_salary).value)
    /\ Truthy(get(filters, "max_salary")) =>
           \/ AtMost(r.min_amount, ParseNumber(filters.max_salary).value)
           \/ AtMost(r.max_amount, ParseNumber(filters.max_salary).value)
    /\ Truthy(get(filters, "days_old")) =>
           r.scraped_at >= local_now - timedelta(ParseNumber(filters.days_old).value)

\* the column ORDER BY uses: sort_by if it is in valid_sort_fields, else scraped_at
SortField(filters) ==
    LET sort_by == get_default(filters, "sort_by", Str(col_scraped_at))
    IN  IF sort_by.kind = "str" /\ sort_by.s \in valid_sort_fields THEN sort_by.s
        ELSE col_scraped_at

\* the direction ORDER BY uses: sort_order in upper case if that is ASC or DESC, else DESC
SortOrder(filters) ==
    LET sort_order == upper(get_default(filters, "sort_order", Str(desc)).s)
    IN  IF sort_order \in {ASC, DESC} THEN sort_order ELSE DESC

\* the value of a column as ORDER BY compares it: NULL first, then numbers, then text
SqlValue(v) ==
    CASE v.kind = "str" -> [class |-> 2, n |-> 0, s |-> v.s]
      [] v.kind = "num" -> [class |-> 1, n |-> v.n, s |-> <<>>]
      [] OTHER -> [class |-> 0, n |-> 0, s |-> <<>>]

Column(r, field) ==
    CASE field = col_title -> SqlValue(Str(r.title))
      [] field = col_company_name -> SqlValue(r.company_name)
      [] field = col_location -> SqlValue(r.location)
      [] field = col_min_amount -> SqlValue(r.min_amount)
      [] field = col_max_amount -> SqlValue(r.max_amount)
      [] field = col_date_posted -> SqlValue(r.date_posted)
      [] field = col_scraped_at -> SqlValue(Num(r.scraped_at))

SqlLess(a, b) ==
    \/ a.class < b.class
    \/ a.class = b.class /\ a.class = 1 /\ a.n < b.n
    \/ a.class = b.class /\ a.class = 2 /\ TextLess(a.s, b.s)

\* the orders ORDER BY field order may return: rows of equal value in any order
Ordered(S, field, order) ==
    {o \in [1..Cardinality(S) -> S] :
        /\ \A i, j \in DOMAIN o : i # j => o[i] # o[j]
        /\ \A i, j \in DOMAIN o : i < j =>
               IF order = ASC THEN ~SqlLess(Column(o[j], field), Column(o[i], field))
               ELSE ~SqlLess(Column(o[i], field), Column(o[j], field))}

\* LIMIT limit OFFSET offset of an ordered result: a negative limit is no limit, a
\* negative offset is 0
LimitOffset(o, limit, offset) ==
    LET first == IF offset < 0 THEN 0 ELSE offset
        last == IF limit < 0 \/ first + limit > Len(o) THEN Len(o) ELSE first + limit
    IN  SubSeq(o, first + 1, last)

\* what search_jobs leaves alone
searchUnchanged ==
    <<jobs, seq, now, ipc, icaller, ijobs, ipos, itxn, itable, iseq, inserted_count,
      skipped_count, ilog, iadded, isecond, icount0, runVars, schedVars>>

\* search_jobs(filters, page, per_page) up to its first statement: connect, build the
\* WHERE and ORDER BY clauses, SELECT COUNT(*). An exception raised while the clauses
\* are built leaves the function with the connection open.
search_jobs_count(filters, page, per_page, utc_offset) ==
    /\ out.op # "search_jobs_count"
    /\ LET args == [filters |-> filters, page |-> page, per_page |-> per_page,
                    local_now |-> datetime_now(utc_offset)]
           matching == {r \in jobs : Where(r, filters, args.local_now)}
       IN  out' = IF SearchError(filters) # ""
                  THEN [op |-> "search_jobs", count |-> 0, rows |-> <<>>,
                        raised |-> SearchError(filters), args |-> args,
                        conn_closed |-> FALSE]
                  ELSE [op |-> "search_jobs_count", count |-> Cardinality(matching),
                        rows |-> <<>>, raised |-> "", args |-> args,
                        conn_closed |-> FALSE]
    /\ UNCHANGED searchUnchanged

\* the second statement, SELECT * ... LIMIT per_page OFFSET (page - 1) * per_page, on
\* the store as it is by then; conn.close(); return jobs, total_count
search_jobs_select ==
    /\ out.op = "search_jobs_count"
    /\ LET args == out.args
           matching == {r \in jobs : Where(r, args.filters, args.local_now)}
           offset == (args.page - 1) * args.per_page
       IN  \E o \in Ordered(matching, SortField(args.filters), SortOrder(args.filters)) :
              out' = [out EXCEPT
                         !.op = "search_jobs",
                         !.rows = [i \in DOMAIN LimitOffset(o, args.per_page, offset) |->
                                      LimitOffset(o, args.per_page, offset)[i].id],
                         !.conn_closed = TRUE]
    /\ UNCHANGED searchUnchanged

\* the key a row falls under in jobs_by_country: the first WHEN of the CASE whose LIKE
\* matches its location
CountryBucket(location) ==
    CASE LikeContains(location, Str(Singapore)) -> Singapore
      [] LikeContains(location, Str(Indonesia))
             \/ LikeContains(location, Str(Jakarta)) -> Indonesia
      [] LikeContains(location, Str(Malaysia))
             \/ LikeContains(location, Str(KualaLumpur)) -> Malaysia
      [] LikeContains(location, Str(Thailand))
             \/ LikeContains(location, Str(Bangkok)) -> Thailand
      [] LikeContains(location, Str(Vietnam))
             \/ LikeContains(location, Str(SubSeq(HoChiMinhCity, 1, 11)))
             \/ LikeContains(location, Str(Hanoi)) -> Vietnam
      [] OTHER -> <<"O","t","h","e","r">>

\* SELECT key, COUNT(*) ... GROUP BY key ORDER BY COUNT(*) DESC, as the lists it may give
GroupCounts(keys) ==
    LET groups == {[key |-> k, count |-> Cardinality({r \in jobs : keys[r] = k})] :
                      k \in {keys[r] : r \in jobs}}
    IN  {o \in [1..Cardinality(groups) -> groups] :
            /\ \A i, j \in DOMAIN o : i # j => o[i] # o[j]
            /\ \A i, j \in DOMAIN o : i < j => o[i].count >= o[j].count}

RECURSIVE SumOf(_, _)
\* SUM(column) over the rows of S that have a value in it
SumOf(S, column) ==
    IF S = {} THEN 0
    ELSE LET r == CHOOSE x \in S : TRUE
         IN  (IF r[column].kind = "num" THEN r[column].n ELSE 0)
                 + SumOf(S \ {r}, column)

\* the values of a column in the rows of S, NULLs left out
ValuesOf(S, column) == {r[column].n : r \in {x \in S : x[column].kind = "num"}}

\* round(AVG(column) or 0, 2): 0 when no row of S has a value, the rounding left out
AvgOrZero(S, column) ==
    IF ValuesOf(S, column) = {} THEN Zero
    ELSE Quotient(SumOf(S, column),
                  Cardinality({x \in S : x[column].kind = "num"}))

\* MIN(column): NULL when no row of S has a value
MinOf(S, column) ==
    IF ValuesOf(S, column) = {} THEN PyNone
    ELSE Num(CHOOSE m \in ValuesOf(S, column) : \A v \in ValuesOf(S, column) : m <= v)

\* MAX(column): NULL when no row of S has a value
MaxOf(S, column) ==
    IF ValuesOf(S, column) = {} THEN PyNone
    ELSE Num(CHOOSE m \in ValuesOf(S, column) : \A v \in ValuesOf(S, column) : m >= v)

\* a guard that lets every total through
HasJobsAlways(total) == TRUE

\* stats['total_jobs'] > 0, the guard of both percentages
HasJobs(total) == total > 0

\* part / total * 100 if total > 0 else 0
Percentage(part, total) ==
    IF HasJobs(total) THEN Divide(part * 100, total) ELSE Ret(Zero)

\* what get_statistics leaves alone
statsUnchanged ==
    <<jobs, seq, now, ipc, icaller, ijobs, ipos, itxn, itable, iseq, inserted_count,
      skipped_count, ilog, iadded, isecond, icount0, out, runVars, dpc, country_idx,
      term_idx, total_jobs, successful_jobs, failed_jobs, dret, dlog, delays, maintVars,
      settings, other>>

\* get_statistics(), its first statement: SELECT COUNT(*) FROM jobs
get_statistics_total ==
    /\ stats.pc \in {"idle", "returned"}
    /\ stats' = [NoStats EXCEPT !.pc = "country", !.total_jobs = Cardinality(jobs)]
    /\ UNCHANGED statsUnchanged

\* the count of rows by country
get_statistics_country ==
    /\ stats.pc = "country"
    /\ \E o \in GroupCounts([r \in jobs |-> CountryBucket(r.location)]) :
          stats' = [stats EXCEPT !.pc = "site", !.jobs_by_country = o]
    /\ UNCHANGED statsUnchanged

\* the count of rows by site
get_statistics_site ==
    /\ stats.pc = "site"
    /\ \E o \in GroupCounts([r \in jobs |-> r.site]) :
          stats' = [stats EXCEPT !.pc = "remote", !.jobs_by_site = o]
    /\ UNCHANGED statsUnchanged

\* SELECT COUNT(*) FROM jobs WHERE is_remote = 1, and the share of total_jobs it is
get_statistics_remote ==
    /\ stats.pc = "remote"
    /\ LET remote_count == Cardinality({r \in jobs : r.is_remote = 1})
           percentage == Percentage(remote_count, stats.total_jobs)
       IN  stats' = IF percentage.raised
                    THEN [stats EXCEPT !.pc = "returned", !.raised = percentage.exc]
                    ELSE [stats EXCEPT !.pc = "salary",
                                       !.remote_percentage = percentage.value]
    /\ UNCHANGED statsUnchanged

\* the aggregates over the rows with a min_amount or a max_amount, and their share of
\* total_jobs; zeros when there is no such row
get_statistics_salary ==
    /\ stats.pc = "salary"
    /\ LET salaried == {r \in jobs : r.min_amount.kind = "num"
                                        \/ r.max_amount.kind = "num"}
           jobs_with_salary == Cardinality(salaried)
           percentage == Percentage(jobs_with_salary, stats.total_jobs)
       IN  stats' =
               IF jobs_with_salary > 0
               THEN IF percentage.raised
                    THEN [stats EXCEPT !.pc = "returned", !.raised = percentage.exc]
                    ELSE [stats EXCEPT
                             !.pc = "returned",
                             !.salary_stats =
                                 [avg_min_salary |-> AvgOrZero(salaried, "min_amount"),
                                  avg_max_salary |-> AvgOrZero(salaried, "max_amount"),
                                  min_salary |-> MinOf(salaried, "min_amount"),
                                  max_salary |-> MaxOf(salaried, "max_amount"),
                                  jobs_with_salary |-> jobs_with_salary,
                                  percentage_with_salary |-> percentage.value]]
               ELSE [stats EXCEPT !.pc = "returned", !.salary_stats = NoSalaryStats]
    /\ UNCHANGED statsUnchanged

\* get_filter_options(): the number of distinct sites
get_filter_options ==
    /\ out' = [op |-> "get_filter_options", count |-> Cardinality({r.site : r \in jobs}),
               rows |-> <<>>]
    /\ UNCHANGED <<jobs, seq, now, ipc, icaller, ijobs, ipos, itxn, itable, iseq,
                   inserted_count, skipped_count, ilog, iadded, isecond, icount0, runVars, schedVars>>

----------------------------------------------------------------------------
(* The store under insert_jobs and cleanup_old_jobs *)

Next ==
    \/ \E jobs_data \in ShortInputs : insert_jobs_direct(jobs_data, MaxSeq)
    \/ insert_jobs_record
    \/ insert_jobs_commit
    \/ insert_jobs_crash
    \/ insert_jobs_again
    \/ insert_jobs_return
    \/ \E days \in CleanupDays : cleanup_old_jobs(days, UTC)
    \/ Tick

Spec == Init /\ [][Next]_vars

----------------------------------------------------------------------------
(* The store under insert_jobs, cleanup_old_jobs and the reads of one statement *)

\* jobs_data lists of one record, and a posting with its rescrape
StoreInputs == {<<j>> : j \in JobUniverse} \cup {<<JobA, JobA2>>}

\* the searches run while insert_jobs and cleanup_old_jobs work on the store
StoreFilters == {NoFilters, [NoFilters EXCEPT !.site = Str(indeed)]}

NextStore ==
    \/ \E jobs_data \in StoreInputs : insert_jobs_direct(jobs_data, MaxSeq)
    \/ insert_jobs_record
    \/ insert_jobs_commit
    \/ insert_jobs_crash
    \/ insert_jobs_return
    \/ \E days \in CleanupDays, utc_offset \in UtcOffsets :
          cleanup_old_jobs(days, utc_offset)
    \/ \E filters \in StoreFilters : search_jobs_count(filters, 1, 2, UTC)
    \/ search_jobs_select
    \/ get_filter_options
    \/ Tick

SpecStore == Init /\ [][NextStore]_vars

----------------------------------------------------------------------------
(* The store under jobs_data lists longer than one batch *)

LongJobs(n) == [i \in 1..n |-> LongJob(i, batch_size)]

\* lists of one batch and up to ChunkExtra records more, and one of two batches and more
LongInputs ==
    {LongJobs(batch_size + k) : k \in 0..ChunkExtra}
        \cup {LongJobs(2 * batch_size + ChunkExtra)}

NextChunk ==
    \/ \E jobs_data \in LongInputs : insert_jobs_direct(jobs_data, MaxSeqLong)
    \/ insert_jobs_record
    \/ insert_jobs_commit
    \/ insert_jobs_crash
    \/ insert_jobs_return

SpecChunk == Init /\ [][NextChunk]_vars

----------------------------------------------------------------------------
(* core/scraper.py: JobScraper *)

\* what the external jobspy.scrape_jobs does for one site: it raises, returns None,
\* returns an empty frame, or returns a frame whose records are `records`
Scraped(kind, records) == [kind |-> kind, records |-> records]

ScrapeResults ==
    {Scraped("raise", <<>>), Scraped("none", <<>>), Scraped("empty", <<>>),
     Scraped("records", <<JobA, JobNY>>), Scraped("records", <<JobA2>>),
     Scraped("records", <<JobNY, JobNoLoc>>), Scraped("records", <<JobA, JobNaN>>),
     Scraped("records", <<JobBig>>)}

RECURSIVE SeaFilter(_)
\* the loop over jobs_list: keep job if job.get('location') and
\* validate_sea_country(job['location']); an exception of the classifier ends the loop
SeaFilter(jobs_list) ==
    IF jobs_list = <<>> THEN Ret(<<>>)
    ELSE LET job == Head(jobs_list)
             keep == IF Truthy(get(job, "location"))
                     THEN validate_sea_country(job["location"])
                     ELSE Ret(FALSE)
             rest == SeaFilter(Tail(jobs_list))
         IN  IF keep.raised THEN Raise(keep.exc)
             ELSE IF rest.raised THEN rest
             ELSE Ret(IF keep.value THEN <<job>> \o rest.value ELSE rest.value)

\* no handler around the scrape: the exception leaves scrape_site_with_logging
OnScrapeErrorRaise(exc) == Raise(exc)

\* except Exception as e: log the error and return []
OnScrapeError(exc) == Ret(<<>>)

\* scrape_site_with_logging(site, ...): the list it returns, given what the external
\* scrape does
scrape_site_with_logging(scraped) ==
    IF scraped.kind = "raise" THEN OnScrapeError("Exception")
    ELSE IF scraped.kind = "records"
    THEN LET sea_jobs == SeaFilter(scraped.records)
         IN  IF sea_jobs.raised THEN OnScrapeError(sea_jobs.exc) ELSE sea_jobs
    ELSE Ret(<<>>)

\* MEMORY_OPTIMIZED_CONFIG, the entries the scheduler and the scraper read
MEMORY_OPTIMIZED_CONFIG ==
    [max_results_per_site |-> 25, batch_delay |-> 10, site_delay |-> 30,
     country_delay |-> 60]

\* if sites is None: sites = ['indeed', 'linkedin']
DefaultSites == <<indeed, linkedin>>

\* a list given as the sites argument
SiteList(l) == [kind |-> "list", s |-> <<>>, n |-> 0, list |-> l]

\* the most records one external scrape returns
MaxScraped == SetMax({Len(r.records) : r \in ScrapeResults})

\* scrape_jobs(search_term, location, results_per_site, sites): validate the parameters,
\* raise ValueError if invalid, else start the loop over sites
scrape_jobs_enter(search_term, location, results_per_site, sites_arg) ==
  LET sites == IF sites_arg.kind = "none" THEN DefaultSites ELSE sites_arg.list IN
    /\ rpc = "idle"
    /\ ipc = "idle"
    /\ rargs' = [search_term |-> search_term, location |-> location,
                 results_per_site |-> results_per_site, sites |-> sites]
    /\ all_jobs' = <<>>
    /\ rlog' = <<>>
    /\ insert_calls' = 0
    /\ pauses' = <<>>
    /\ rret' = 0
    /\ IF ~validate_search_params(search_term, location, results_per_site).is_valid
       THEN /\ rpc' = "raised"
            /\ rexc' = "ValueError"
            /\ rsite' = 0
       ELSE /\ rpc' = IF sites = <<>> THEN "summary" ELSE "site"
            /\ rexc' = ""
            /\ rsite' = IF sites = <<>> THEN 0 ELSE 1
    /\ UNCHANGED <<storeVars, ipc, icaller, ijobs, ipos, itxn, itable, iseq,
                   inserted_count, skipped_count, ilog, iadded, isecond, icount0>>

\* scrape_jobs called from the command line or by the scheduler
scrape_jobs_call(search_term, location, results_per_site, sites_arg) ==
    /\ scrape_jobs_enter(search_term, location, results_per_site, sites_arg)
    /\ UNCHANGED out

\* scrape_jobs called by a client
scrape_jobs_begin(search_term, location, results_per_site, sites_arg) ==
    /\ dpc = "idle"
    /\ seq + MaxScraped * Len(IF sites_arg.kind = "none" THEN DefaultSites
                                                         ELSE sites_arg.list) <= MaxSeqRun
    /\ scrape_jobs_call(search_term, location, results_per_site, sites_arg)
    /\ UNCHANGED schedVars

\* a test that takes the site before the last for the last
NotLastSiteOffByOne(i, sites) == i < Len(sites) - 1

\* if i < len(sites) - 1, for i counted from 0; here the sites are counted from 1
NotLastSite(i, sites) == i < Len(sites)

\* one pass of `for i, site in enumerate(sites)` up to the delay: scrape the site and
\* extend all_jobs with what scrape_site_with_logging returns
scrape_jobs_site(scraped) ==
    /\ rpc = "site"
    /\ LET site_jobs == scrape_site_with_logging(scraped)
       IN  /\ rlog' = Append(rlog, [site |-> rargs.sites[rsite], scraped |-> scraped,
                                    raised |-> site_jobs.raised,
                                    site_jobs |-> IF site_jobs.raised THEN <<>>
                                                  ELSE site_jobs.value])
           /\ IF site_jobs.raised
              THEN /\ rpc' = "raised"
                   /\ rexc' = site_jobs.exc
                   /\ UNCHANGED all_jobs
              ELSE /\ all_jobs' = IF site_jobs.value # <<>>
                                  THEN all_jobs \o site_jobs.value
                                  ELSE all_jobs
                   /\ rpc' = IF NotLastSite(rsite, rargs.sites) THEN "pause"
                             ELSE "summary"
                   /\ UNCHANGED rexc
    /\ UNCHANGED <<storeVars, ipc, icaller, ijobs, ipos, itxn, itable, iseq,
                   inserted_count, skipped_count, ilog, iadded, isecond, icount0, out,
                   rargs, rsite, rret, insert_calls, pauses, schedVars>>

\* if i < len(sites) - 1: time.sleep(delay), then the next site
scrape_jobs_pause ==
    /\ rpc = "pause"
    /\ pauses' = Append(pauses, MEMORY_OPTIMIZED_CONFIG.site_delay)
    /\ rsite' = rsite + 1
    /\ rpc' = "site"
    /\ UNCHANGED <<storeVars, ipc, icaller, ijobs, ipos, itxn, itable, iseq,
                   inserted_count, skipped_count, ilog, iadded, isecond, icount0, out,
                   rargs, all_jobs, rret, rexc, rlog, insert_calls, schedVars>>

\* after the loop: the summary log divides total_elapsed by len(sites); then
\* insert_jobs(all_jobs) if all_jobs is not empty, else return 0
scrape_jobs_summary ==
    /\ rpc = "summary"
    /\ IF Len(rargs.sites) = 0
       THEN /\ rpc' = "raised"
            /\ rexc' = "ZeroDivisionError"
            /\ UNCHANGED <<ipc, icaller, ijobs, ipos, itxn, itable, iseq, inserted_count,
                           skipped_count, ilog, iadded, isecond, icount0, rret,
                           insert_calls, storeVars, out>>
       ELSE IF all_jobs # <<>>
       THEN /\ insert_jobs_begin(all_jobs, "scrape_jobs", seq + Len(all_jobs))
            /\ insert_calls' = insert_calls + 1
            /\ rpc' = "insert"
            /\ UNCHANGED <<rret, rexc>>
       ELSE /\ rpc' = "returned"
            /\ rret' = 0
            /\ UNCHANGED <<ipc, icaller, ijobs, ipos, itxn, itable, iseq, inserted_count,
                           skipped_count, ilog, iadded, isecond, icount0, rexc,
                           insert_calls, storeVars, out>>
    /\ UNCHANGED <<rargs, rsite, all_jobs, rlog, pauses, schedVars>>

\* insert_jobs has returned inserted_count to scrape_jobs, which returns it
scrape_jobs_return ==
    /\ rpc = "insert"
    /\ ipc = "done"
    /\ icaller = "scrape_jobs"
    /\ rpc' = "returned"
    /\ rret' = inserted_count
    /\ ipc' = "idle"
    /\ icaller' = "direct"
    /\ ijobs' = <<>>
    /\ ipos' = 0
    /\ inserted_count' = 0
    /\ skipped_count' = 0
    /\ ilog' = <<>>
    /\ iadded' = {}
    /\ UNCHANGED <<storeVars, itxn, itable, iseq, isecond, icount0, out,
                   rargs, rsite, all_jobs, rexc, rlog, insert_calls, pauses, schedVars>>

\* the caller of scrape_jobs has the returned value or the exception
scrape_jobs_end ==
    /\ rpc \in {"returned", "raised"}
    /\ rpc' = "idle"
    /\ rargs' = NoArgs
    /\ rsite' = 0
    /\ all_jobs' = <<>>
    /\ rret' = 0
    /\ rexc' = ""
    /\ rlog' = <<>>
    /\ insert_calls' = 0
    /\ pauses' = <<>>
    /\ UNCHANGED <<storeVars, ipc, icaller, ijobs, ipos, itxn, itable, iseq,
                   inserted_count, skipped_count, ilog, iadded, isecond, icount0, out,
                   schedVars>>

dev == <<"d","e","v">>

\* search_term arguments
SearchTerms == {Str(dev), Str(<<" ">>), Str(<<>>), PyNone}

\* location arguments
Locations ==
    {Str(Singapore), Str(<<"J","A","K","A","R","T","A",","," ">> \o lower(Indonesia)),
     Str(Jakarta), Str(NewYork), Str(<<" "," ">>), Str(<<>>), PyNone}

\* results_per_site arguments
ResultCounts == {-1, 0, 1, 200, 201}

\* sites arguments: None, or a list of at most MaxSites sites
SiteArgs == {PyNone} \cup {SiteList(l) : l \in SeqsUpTo({indeed, linkedin}, MaxSites)}

NextRun ==
    \/ \E search_term \in SearchTerms, location \in Locations,
          results_per_site \in ResultCounts, sites \in SiteArgs :
          scrape_jobs_begin(search_term, location, results_per_site, sites)
    \/ \E scraped \in ScrapeResults : scrape_jobs_site(scraped)
    \/ scrape_jobs_pause
    \/ scrape_jobs_summary
    \/ insert_jobs_record
    \/ insert_jobs_commit
    \/ scrape_jobs_return
    \/ scrape_jobs_end

SpecRun == Init /\ [][NextRun]_vars

----------------------------------------------------------------------------
(* core/scheduler.py: JobScheduler.run_daily_scraping *)

software_engineer == <<"s","o","f","t","w","a","r","e"," ","e","n","g","i","n","e","e","r">>
developer == <<"d","e","v","e","l","o","p","e","r">>
data_analyst == <<"d","a","t","a"," ","a","n","a","l","y","s","t">>
product_manager == <<"p","r","o","d","u","c","t"," ","m","a","n","a","g","e","r">>

\* SEA_SCRAPING_CONFIG.items(), in insertion order
SEA_SCRAPING_CONFIG ==
    <<[country |-> Indonesia, location |-> Jakarta \o <<",", " ">> \o Indonesia,
       search_terms |-> <<software_engineer, developer, data_analyst>>,
       sites |-> <<indeed, linkedin>>],
      [country |-> Malaysia, location |-> KualaLumpur \o <<",", " ">> \o Malaysia,
       search_terms |-> <<software_engineer, developer, data_analyst>>,
       sites |-> <<indeed, linkedin>>],
      [country |-> Thailand, location |-> Bangkok \o <<",", " ">> \o Thailand,
       search_terms |-> <<software_engineer, developer, data_analyst>>,
       sites |-> <<indeed, linkedin>>],
      [country |-> Vietnam, location |-> HoChiMinhCity \o <<",", " ">> \o Vietnam,
       search_terms |-> <<software_engineer, developer, data_analyst>>,
       sites |-> <<indeed, linkedin>>],
      [country |-> Singapore, location |-> Singapore,
       search_terms |-> <<software_engineer, developer, data_analyst, product_manager>>,
       sites |-> <<indeed, linkedin>>]>>

\* hours_old=336 in the call of scrape_jobs
HoursOld == 336

\* what the external scrape gives during a daily run
DailyScrapeResults == {Scraped("raise", <<>>), Scraped("empty", <<>>), Scraped("records", <<JobA>>)}

\* the exception leaves run_scraping_job
OnJobErrorRaise(exc) == Raise(exc)

\* except Exception as e: log the error and return False
OnJobError(exc) == Ret(FALSE)

\* only a success is counted
CountJobSuccessOnly(success, succeeded, failed) ==
    [successful_jobs |-> IF success THEN succeeded + 1 ELSE succeeded,
     failed_jobs |-> failed]

\* if success: successful_jobs += 1 else: failed_jobs += 1
CountJob(success, succeeded, failed) ==
    IF success THEN [successful_jobs |-> succeeded + 1, failed_jobs |-> failed]
    ELSE [successful_jobs |-> succeeded, failed_jobs |-> failed + 1]

\* (successful_jobs/total_jobs)*100 if total_jobs > 0 else 0
SuccessRate(succeeded, total) ==
    IF total > 0 THEN Quotient(succeeded * 100, total) ELSE Quotient(0, 1)

\* run_daily_scraping(): the counters start at 0 and the loop at the first country
run_daily_scraping_begin ==
    /\ dpc = "idle"
    /\ rpc = "idle"
    /\ ipc = "idle"
    /\ dpc' = "job"
    /\ country_idx' = 1
    /\ term_idx' = 1
    /\ total_jobs' = 0
    /\ successful_jobs' = 0
    /\ failed_jobs' = 0
    /\ dret' = NoSummary
    /\ dlog' = <<>>
    /\ delays' = <<>>
    /\ UNCHANGED <<storeVars, ipc, icaller, ijobs, ipos, itxn, itable, iseq,
                   inserted_count, skipped_count, ilog, iadded, isecond, icount0, out,
                   runVars, maintVars, stats, settings, other>>

\* SEA_SCRAPING_CONFIG[country]
ConfigOf(country) ==
    SEA_SCRAPING_CONFIG[CHOOSE i \in DOMAIN SEA_SCRAPING_CONFIG :
                            SEA_SCRAPING_CONFIG[i].country = country]

\* country in SEA_SCRAPING_CONFIG
KnownCountry(country) ==
    \E i \in DOMAIN SEA_SCRAPING_CONFIG : SEA_SCRAPING_CONFIG[i].country = country

\* a test that takes a scrape that inserted nothing for a failure
SucceededIfInserted(count) == count > 0

\* if inserted_count >= 0: success, even if no job was inserted
Succeeded(count) == count >= 0

\* run_scraping_job(country, search_term, sites, max_results) up to its call of
\* scrape_jobs with the location of the country's configuration; for a country that
\* is not in the configuration it returns False without calling scrape_jobs
run_scraping_job_begin ==
    /\ dpc = "job"
    /\ LET country == SEA_SCRAPING_CONFIG[country_idx].country
           config == SEA_SCRAPING_CONFIG[country_idx]
           search_term == config.search_terms[term_idx]
           sites == config.sites
           max_results == MEMORY_OPTIMIZED_CONFIG.max_results_per_site
       IN  IF ~KnownCountry(country)
           THEN /\ dpc' = "unknown"
                /\ UNCHANGED <<storeVars, ipc, icaller, ijobs, ipos, itxn, itable, iseq,
                               inserted_count, skipped_count, ilog, iadded, isecond,
                               icount0, out, runVars, dlog>>
           ELSE /\ scrape_jobs_call(Str(search_term), Str(ConfigOf(country).location),
                                    max_results, SiteList(sites))
                /\ dlog' = Append(dlog, [country |-> country,
                                         search_term |-> search_term,
                                         location |-> ConfigOf(country).location,
                                         sites |-> sites,
                                         results_per_site |-> max_results,
                                         hours_old |-> HoursOld])
                /\ dpc' = "wait"
    /\ UNCHANGED <<country_idx, term_idx, total_jobs, successful_jobs, failed_jobs,
                   dret, delays, maintVars, stats, settings, other>>

\* sqlite3.connect in insert_jobs raises (the database cannot be opened): the
\* exception leaves insert_jobs
insert_jobs_connect_error ==
    /\ ipc = "loop"
    /\ ipos = 0
    /\ ~itxn
    /\ ipc' = "raised"
    /\ UNCHANGED <<storeVars, icaller, ijobs, ipos, itxn, itable, iseq, inserted_count,
                   skipped_count, ilog, iadded, isecond, icount0, out, runVars,
                   schedVars>>

\* the exception of insert_jobs leaves scrape_jobs, which has no handler around the call
scrape_jobs_insert_raised ==
    /\ rpc = "insert"
    /\ ipc = "raised"
    /\ icaller = "scrape_jobs"
    /\ rpc' = "raised"
    /\ rexc' = "OperationalError"
    /\ ipc' = "idle"
    /\ icaller' = "direct"
    /\ ijobs' = <<>>
    /\ ipos' = 0
    /\ inserted_count' = 0
    /\ skipped_count' = 0
    /\ ilog' = <<>>
    /\ iadded' = {}
    /\ UNCHANGED <<storeVars, itxn, itable, iseq, isecond, icount0, out,
                   rargs, rsite, all_jobs, rret, rlog, insert_calls, pauses, schedVars>>

\* scrape_jobs has returned or raised: run_scraping_job returns True or False, and
\* run_daily_scraping counts the job
run_scraping_job_end ==
    /\ \/ dpc = "wait" /\ rpc \in {"returned", "raised"}
       \/ dpc = "unknown"
    /\ LET result == IF dpc = "unknown" THEN Ret(FALSE)
                     ELSE IF rpc = "raised" THEN OnJobError(rexc)
                     ELSE Ret(Succeeded(rret))
           counted == CountJob(result.value, successful_jobs, failed_jobs)
           terms == SEA_SCRAPING_CONFIG[country_idx].search_terms
       IN  IF result.raised
           THEN /\ dpc' = "raised"
                /\ UNCHANGED <<total_jobs, successful_jobs, failed_jobs>>
           ELSE /\ total_jobs' = total_jobs + 1
                /\ successful_jobs' = counted.successful_jobs
                /\ failed_jobs' = counted.failed_jobs
                /\ dpc' = IF term_idx < Len(terms) THEN "term_delay"
                          ELSE IF country_idx < Len(SEA_SCRAPING_CONFIG)
                          THEN "country_delay" ELSE "summary"
    /\ rpc' = "idle"
    /\ rargs' = NoArgs
    /\ rsite' = 0
    /\ all_jobs' = <<>>
    /\ rret' = 0
    /\ rexc' = ""
    /\ rlog' = <<>>
    /\ insert_calls' = 0
    /\ pauses' = <<>>
    /\ UNCHANGED <<storeVars, ipc, icaller, ijobs, ipos, itxn, itable, iseq,
                   inserted_count, skipped_count, ilog, iadded, isecond, icount0, out,
                   country_idx, term_idx, dret, dlog, delays, maintVars, stats, settings, other>>

\* if term_idx < len(config['search_terms']): time.sleep(batch_delay), cleanup_memory
run_daily_term_delay ==
    /\ dpc = "term_delay"
    /\ delays' = Append(delays, [pause |-> "term",
                                 seconds |-> MEMORY_OPTIMIZED_CONFIG.batch_delay])
    /\ term_idx' = term_idx + 1
    /\ dpc' = "job"
    /\ UNCHANGED <<storeVars, ipc, icaller, ijobs, ipos, itxn, itable, iseq,
                   inserted_count, skipped_count, ilog, iadded, isecond, icount0, out,
                   runVars, country_idx, total_jobs, successful_jobs, failed_jobs,
                   dret, dlog, maintVars, stats, settings, other>>

\* if country_idx < len(SEA_SCRAPING_CONFIG): time.sleep(country_delay), cleanup_memory
run_daily_country_delay ==
    /\ dpc = "country_delay"
    /\ delays' = Append(delays, [pause |-> "country",
                                 seconds |-> MEMORY_OPTIMIZED_CONFIG.country_delay])
    /\ country_idx' = country_idx + 1
    /\ term_idx' = 1
    /\ dpc' = "job"
    /\ UNCHANGED <<storeVars, ipc, icaller, ijobs, ipos, itxn, itable, iseq,
                   inserted_count, skipped_count, ilog, iadded, isecond, icount0, out,
                   runVars, total_jobs, successful_jobs, failed_jobs, dret, dlog,
                   maintVars, stats, settings, other>>

\* the final summary: the log line divides by total_jobs; get_statistics runs inside
\* its own try; the dictionary is returned
run_daily_summary ==
    /\ dpc = "summary"
    /\ IF total_jobs = 0
       THEN /\ dpc' = "raised"
            /\ UNCHANGED dret
       ELSE /\ dpc' = "returned"
            /\ dret' = [total_jobs |-> total_jobs, successful_jobs |-> successful_jobs,
                        failed_jobs |-> failed_jobs,
                        success_rate |-> SuccessRate(successful_jobs, total_jobs)]
    /\ UNCHANGED <<storeVars, ipc, icaller, ijobs, ipos, itxn, itable, iseq,
                   inserted_count, skipped_count, ilog, iadded, isecond, icount0, out,
                   runVars, country_idx, term_idx, total_jobs, successful_jobs,
                   failed_jobs, dlog, delays, maintVars, stats, settings, other>>

NextDaily ==
    \/ run_daily_scraping_begin
    \/ run_scraping_job_begin
    \/ \E scraped \in DailyScrapeResults : scrape_jobs_site(scraped)
    \/ scrape_jobs_pause
    \/ scrape_jobs_summary
    \/ insert_jobs_record
    \/ insert_jobs_commit
    \/ insert_jobs_connect_error
    \/ scrape_jobs_return
    \/ scrape_jobs_insert_raised
    \/ run_scraping_job_end
    \/ run_daily_term_delay
    \/ run_daily_country_delay
    \/ run_daily_summary

SpecDaily == Init /\ [][NextDaily]_vars

\* environments: nothing set, and every delay set to a value of its own
Environments == {NoEnviron, Environ(Str(<<"5">>), Str(<<"6">>), Str(<<"7">>))}

\* get_settings() in JobScheduler.__init__ and JobScraper.__init__: the settings are
\* created from the environment of the process before the scheduler runs
InitPause ==
    /\ InitProgram
    /\ \E environ \in Environments : settings = from_env(environ)

SpecPause == InitPause /\ [][NextDaily]_vars

----------------------------------------------------------------------------
(* core/scheduler.py: run_weekly_maintenance, run_cleanup; utils/logging.py *)

\* settings.log_retention_days (LOG_RETENTION_DAYS), in days
LogRetentionDays == {0, 1}

\* the step of a maintenance routine that raises, if any
WeeklyFaults == {"none", "cleanup_old_jobs", "cleanup_old_logs", "get_statistics"}

CleanupFaults == {"none", "cleanup_memory", "cleanup_old_logs"}

\* the log files cleanup_old_logs tries to unlink: st_mtime < time.time() - days_to_keep
OldLogs(files, days_to_keep) == {m \in files : m < now - 24 * days_to_keep}

\* no handler: the exception leaves the maintenance routine
OnMaintenanceErrorRaise(exc) == Raise(exc)

\* except Exception as e: log the error; the routine goes on to its end
OnMaintenanceError(exc) == Ret("logged")

\* a logger writes to a log file that did not exist
write_log ==
    /\ now \notin log_files
    /\ log_files' = log_files \cup {now}
    /\ UNCHANGED <<storeVars, ipc, icaller, ijobs, ipos, itxn, itable, iseq,
                   inserted_count, skipped_count, ilog, iadded, isecond, icount0, out,
                   runVars, dpc, country_idx, term_idx, total_jobs, successful_jobs,
                   failed_jobs, dret, dlog, delays, mout, stats, settings, other>>

\* run_weekly_maintenance(): cleanup_old_jobs(settings.cleanup_days), cleanup_old_logs,
\* get_statistics and log_system_resources inside one try. `fault` is the step that
\* raises; `kept` are the old log files whose unlink fails with OSError, which
\* cleanup_old_logs ignores. The values the steps return go to the log.
run_weekly_maintenance(days, utc_offset, days_to_keep, fault, kept) ==
    /\ ~itxn
    /\ ipc = "idle"
    /\ rpc = "idle"
    /\ dpc = "idle"
    /\ kept \subseteq OldLogs(log_files, days_to_keep)
    /\ jobs' = IF fault = "cleanup_old_jobs" THEN jobs
               ELSE jobs \ OldJobs(jobs, days, utc_offset)
    /\ log_files' = IF fault \in {"cleanup_old_jobs", "cleanup_old_logs"} THEN log_files
                    ELSE (log_files \ OldLogs(log_files, days_to_keep)) \cup kept
    /\ LET result == IF fault = "none" THEN Ret("completed")
                     ELSE OnMaintenanceError(fault)
       IN  mout' = [op |-> "run_weekly_maintenance", fault |-> fault,
                    raised |-> result.raised]
    /\ isecond' = FALSE
    /\ UNCHANGED <<seq, now, ipc, icaller, ijobs, ipos, itxn, itable, iseq,
                   inserted_count, skipped_count, ilog, iadded, icount0, out,
                   runVars, dpc, country_idx, term_idx, total_jobs, successful_jobs,
                   failed_jobs, dret, dlog, delays, stats, settings, other>>

\* run_cleanup(): cleanup_memory, cleanup_old_logs and log_system_resources inside one try
run_cleanup(days_to_keep, fault, kept) ==
    /\ rpc = "idle"
    /\ dpc = "idle"
    /\ kept \subseteq OldLogs(log_files, days_to_keep)
    /\ log_files' = IF fault # "none" THEN log_files
                    ELSE (log_files \ OldLogs(log_files, days_to_keep)) \cup kept
    /\ LET result == IF fault = "none" THEN Ret("completed")
                     ELSE OnMaintenanceError(fault)
       IN  mout' = [op |-> "run_cleanup", fault |-> fault, raised |-> result.raised]
    /\ UNCHANGED <<storeVars, ipc, icaller, ijobs, ipos, itxn, itable, iseq,
                   inserted_count, skipped_count, ilog, iadded, isecond, icount0, out,
                   runVars, dpc, country_idx, term_idx, total_jobs, successful_jobs,
                   failed_jobs, dret, dlog, delays, stats, settings, other>>

\* the values the clock takes
ClockValues == {i * TickHours : i \in 0..MaxTime}

\* jobs_data handed to insert_jobs between maintenance runs
MaintInputs == {<<JobA>>, <<JobA, JobA2>>, <<JobNoLoc, JobNY>>}

NextMaint ==
    \/ \E jobs_data \in MaintInputs : insert_jobs_direct(jobs_data, MaxSeq)
    \/ insert_jobs_record
    \/ insert_jobs_commit
    \/ insert_jobs_return
    \/ Tick
    \/ write_log
    \/ \E days \in CleanupDays, utc_offset \in UtcOffsets,
          days_to_keep \in LogRetentionDays, fault \in WeeklyFaults,
          kept \in SUBSET ClockValues :
          run_weekly_maintenance(days, utc_offset, days_to_keep, fault, kept)
    \/ \E days_to_keep \in LogRetentionDays, fault \in CleanupFaults,
          kept \in SUBSET ClockValues :
          run_cleanup(days_to_keep, fault, kept)

SpecMaint == Init /\ [][NextMaint]_vars

----------------------------------------------------------------------------
(* api/app.py: get_jobs over database/manager.py: search_jobs *)

\* settings.max_results_per_request
max_results_per_request == 200

\* min(a, b)
min(a, b) == IF a <= b THEN a ELSE b

\* the per_page of a request without one
DefaultPerPage == 20

\* request.args.get(key, default) of a query parameter
args_get(value, default) == IF value.kind = "absent" THEN default ELSE value

\* GET /api/jobs up to the first statement of the search: page and per_page are the
\* query parameters as text, or Absent; int() of either may raise, which ends the
\* request before the store is opened; per_page is capped by max_results_per_request
get_jobs(filters, page, per_page, utc_offset) ==
    LET page_int == ParseNumber(args_get(page, Num(1)))
        per_page_int == ParseNumber(args_get(per_page, Num(DefaultPerPage)))
    IN  IF page_int.raised \/ per_page_int.raised
        THEN /\ out.op # "search_jobs_count"
             /\ out' = [op |-> "get_jobs", count |-> 0, rows |-> <<>>,
                        raised |-> IF page_int.raised THEN page_int.exc
                                   ELSE per_page_int.exc,
                        args |-> [filters |-> filters, page |-> page,
                                  per_page |-> per_page,
                                  local_now |-> datetime_now(utc_offset)],
                        conn_closed |-> TRUE]
             /\ UNCHANGED searchUnchanged
        ELSE search_jobs_count(filters, page_int.value,
                               min(per_page_int.value, max_results_per_request),
                               utc_offset)

\* the response of GET /api/jobs once the search has returned or something has raised:
\* the page with its pagination, where total_pages divides by per_page; any exception
\* becomes a 500 with an error key
get_jobs_response(o) ==
    IF o.raised # "" THEN [status |-> 500, error |-> o.raised]
    ELSE IF o.args.per_page = 0 THEN [status |-> 500, error |-> "ZeroDivisionError"]
    ELSE [status |-> 200, error |-> ""]

\* a remote posting with a salary range of 1000 to 2000
JobBee == JobFull(indeed, <<"u","1">>, <<"b","e","e">>, Str(<<"Z","e","d">>),
                  Str(Singapore), Absent, Num(1000), Num(2000), PyBool(TRUE))

\* a posting without salary data and without a remote flag
JobAnt == JobFull(linkedin, <<"u","2">>, <<"A","n","t">>, Str(<<"a","c","m","e">>),
                  Str(lower(Jakarta)), Absent, PyNone, PyNone, Absent)

\* a remote posting with a lower salary bound only and no company
JobCat == JobFull(indeed, <<"u","3">>, <<"c","a","t">>, Absent, Str(Singapore), Absent,
                  Num(3000), PyNone, Str(<<"y","e","s">>))

SearchInputs == {<<JobBee>>, <<JobAnt, JobCat>>}

\* text values of the requests
true == <<"t","r","u","e">>
Salary1500 == Str(<<"1","5","0","0">>)

\* requests that filter: each filter key alone, and some of them together
WhereFilters ==
    {[NoFilters EXCEPT !.title = Str(<<"a">>)],
     [NoFilters EXCEPT !.company = Str(<<"z">>)],
     [NoFilters EXCEPT !.location = Str(<<"s","i","n","g">>)],
     [NoFilters EXCEPT !.site = Str(indeed)],
     [NoFilters EXCEPT !.is_remote = Str(true)],
     [NoFilters EXCEPT !.is_remote = Str(<<"1">>)],
     [NoFilters EXCEPT !.is_remote = PyBool(FALSE)],
     [NoFilters EXCEPT !.min_salary = Salary1500],
     [NoFilters EXCEPT !.max_salary = Salary1500],
     [NoFilters EXCEPT !.min_salary = Str(<<"a">>)],
     [NoFilters EXCEPT !.days_old = Str(<<"1">>)],
     [NoFilters EXCEPT !.min_salary = Salary1500, !.max_salary = Salary1500],
     [NoFilters EXCEPT !.site = Str(indeed), !.min_salary = Salary1500],
     [NoFilters EXCEPT !.title = Str(<<"a">>), !.is_remote = Str(true)]}

\* requests that sort: every valid field, a column outside the list and a null field,
\* ascending and by default; every direction with the default field: both directions
\* in either case, an unknown one, a null one
SortFilters ==
    {[NoFilters EXCEPT !.sort_by = sort_by, !.sort_order = sort_order] :
        sort_by \in {Str(f) : f \in valid_sort_fields}
                    \cup {PyNone, Str(<<"s","i","t","e">>)},
        sort_order \in {Absent, Str(<<"a","s","c">>)}}
    \cup {[NoFilters EXCEPT !.sort_order = sort_order] :
             sort_order \in {PyNone, Str(ASC), Str(desc), Str(<<"u","p">>)}}

\* a whole number as the text of a query parameter
IntText(n) == Str(IF n < 0 THEN <<"-">> \o Digits(0 - n) ELSE Digits(n))

\* page and per_page of the requests that page through everything
Pages == {<<1, 1>>, <<2, 1>>, <<1, 2>>, <<2, 2>>, <<0, 2>>, <<1, 0>>, <<1, 0 - 1>>,
          <<1, max_results_per_request + 1>>}

\* page and per_page of the requests whose pagination is not a whole number
NotNumbers == {<<Str(<<"a">>), Absent>>, <<Absent, Str(<<"a">>)>>, <<Str(<<>>), Absent>>}

\* the store is filled by insert_jobs while time passes; one request is served, at any
\* moment
NextSearch ==
    \/ \E jobs_data \in SearchInputs : insert_jobs_direct(jobs_data, MaxSeq)
    \/ insert_jobs_record
    \/ insert_jobs_commit
    \/ insert_jobs_return
    \/ /\ out.op = "none"
       /\ \E filters \in WhereFilters \cup SortFilters :
             get_jobs(filters, Absent, Absent, UTC)
    \/ /\ out.op = "none"
       /\ \E p \in Pages : get_jobs(NoFilters, IntText(p[1]), IntText(p[2]), UTC)
    \/ /\ out.op = "none"
       /\ \E p \in NotNumbers : get_jobs(NoFilters, p[1], p[2], UTC)
    \/ search_jobs_select
    \/ Tick

SpecSearch == Init /\ [][NextSearch]_vars

----------------------------------------------------------------------------
(* api/app.py: trigger_scraping and get_jobs as HTTP handlers *)

\* results of a request without one
DefaultResults == 25

\* the JSON body of a POST /api/scrape
ScrapeBody(search_term, location, country, results, sites) == [kind |-> "dict", search_term |-> search_term, location |-> location, country |-> country, results |-> results, sites |-> sites]

\* location = data.get('location') or data.get('country', 'Singapore')
body_location(data) ==
    IF Truthy(get(data, "location")) THEN data.location
    ELSE get_default(data, "country", Str(Singapore))

\* sites = data.get('sites', ['indeed', 'linkedin'])
body_sites(data) == get_default(data, "sites", SiteList(<<indeed, linkedin>>))

\* results = min(int(data.get('results', 25)), settings.max_results_per_request)
body_results(data) ==
    LET n == IF data.results.kind = "none" THEN Raise("TypeError")
             ELSE ParseNumber(get_default(data, "results", Num(DefaultResults)))
    IN  IF n.raised THEN n ELSE Ret(min(n.value, max_results_per_request))

\* the response of a POST /api/scrape
ScrapeResponse(data, status, error) == [op |-> "trigger_scraping", count |-> 0, rows |-> <<>>, data |-> data, status |-> status, error |-> error]

\* POST /api/scrape: 400 without a body or a search_term, 500 when anything raises,
\* else the scrape is started in a background thread and the response is sent without
\* waiting for it; the thread logs what scrape_jobs returns or raises. One background
\* scrape is followed at a time.
trigger_scraping(data) ==
    IF data.kind # "dict"
    THEN /\ out' = ScrapeResponse(data, 400, "No data provided")
         /\ UNCHANGED <<jobs, seq, now, ipc, icaller, ijobs, ipos, itxn, itable, iseq,
                        inserted_count, skipped_count, ilog, iadded, isecond, icount0,
                        runVars, schedVars>>
    ELSE IF body_results(data).raised
    THEN /\ out' = ScrapeResponse(data, 500, body_results(data).exc)
         /\ UNCHANGED <<jobs, seq, now, ipc, icaller, ijobs, ipos, itxn, itable, iseq,
                        inserted_count, skipped_count, ilog, iadded, isecond, icount0,
                        runVars, schedVars>>
    ELSE IF ~Truthy(get(data, "search_term"))
    THEN /\ out' = ScrapeResponse(data, 400, "search_term is required")
         /\ UNCHANGED <<jobs, seq, now, ipc, icaller, ijobs, ipos, itxn, itable, iseq,
                        inserted_count, skipped_count, ilog, iadded, isecond, icount0,
                        runVars, schedVars>>
    ELSE /\ dpc = "idle"
         /\ seq + MaxScraped * Len(IF body_sites(data).kind = "none" THEN DefaultSites
                                   ELSE body_sites(data).list) <= MaxSeqRun
         /\ scrape_jobs_enter(data.search_term, body_location(data),
                              body_results(data).value, body_sites(data))
         /\ out' = ScrapeResponse(data, 200, "")
         /\ UNCHANGED schedVars

\* bodies of POST /api/scrape: none, an empty one, and every combination of a search
\* term, a location or a country, a number of results and a list of sites
ScrapeBodies ==
    {PyNone}
    \cup {ScrapeBody(search_term, location, Absent, results, sites) :
             search_term \in {Absent, Str(<<>>), Str(<<" ">>), Str(dev)},
             location \in {Absent, Str(Jakarta), Str(NewYork)},
             results \in {Absent, PyNone, Num(0), Num(1), Str(<<"5">>), Str(<<"a">>),
                          Num(max_results_per_request + 1)},
             sites \in {Absent, PyNone, SiteList(<<linkedin>>)}}
    \cup {ScrapeBody(Str(dev), Absent, country, Absent, SiteList(<<indeed>>)) :
             country \in {Str(lower(Indonesia)), Str(NewYork)}}

\* what the external scrape of a background run returns
ApiScrapeResults ==
    {Scraped("raise", <<>>), Scraped("empty", <<>>), Scraped("records", <<JobA, JobNY>>)}

\* query strings of GET /api/jobs: filters with page and per_page
ApiQueries ==
    {<<NoFilters, Absent, Absent>>, <<NoFilters, IntText(1), IntText(1)>>,
     <<NoFilters, Str(<<"a">>), Absent>>, <<NoFilters, Absent, Str(<<"a">>)>>,
     <<NoFilters, Absent, IntText(0)>>,
     <<[NoFilters EXCEPT !.min_salary = Str(<<"a">>)], Absent, Absent>>,
     <<[NoFilters EXCEPT !.max_salary = Str(<<"a">>)], Absent, Absent>>,
     <<[NoFilters EXCEPT !.days_old = Str(<<"a">>)], Absent, Absent>>,
     <<[NoFilters EXCEPT !.days_old = Str(<<"1">>)], Absent, Absent>>,
     <<[NoFilters EXCEPT !.title = Str(<<"a">>)], Absent, Absent>>}

\* one POST /api/scrape, whose background scrape runs to its end, and one GET /api/jobs
\* at any moment
NextApi ==
    \/ /\ out.op = "none"
       /\ \E data \in ScrapeBodies : trigger_scraping(data)
    \/ \E scraped \in ApiScrapeResults : scrape_jobs_site(scraped)
    \/ scrape_jobs_pause
    \/ scrape_jobs_summary
    \/ insert_jobs_record
    \/ insert_jobs_commit
    \/ scrape_jobs_return
    \/ scrape_jobs_end
    \/ /\ out.op \in {"none", "trigger_scraping"}
       /\ \E q \in ApiQueries : get_jobs(q[1], q[2], q[3], UTC)
    \/ search_jobs_select

SpecApi == Init /\ [][NextApi]_vars

----------------------------------------------------------------------------
(* database/manager.py: get_statistics while the store changes *)

StatsInputs == {<<JobAnt>>, <<JobBee, JobCat>>}

\* insert_jobs fills the store and cleanup_old_jobs empties it while time passes and
\* one call of get_statistics runs its statements
NextStats ==
    \/ \E jobs_data \in StatsInputs : insert_jobs_direct(jobs_data, MaxSeq)
    \/ insert_jobs_record
    \/ insert_jobs_commit
    \/ insert_jobs_return
    \/ \E days \in CleanupDays : cleanup_old_jobs(days, UTC)
    \/ stats.pc = "idle" /\ get_statistics_total
    \/ get_statistics_country
    \/ get_statistics_site
    \/ get_statistics_remote
    \/ get_statistics_salary
    \/ Tick

SpecStats == Init /\ [][NextStats]_vars

----------------------------------------------------------------------------
(* utils/validation.py: validate_sea_country on locations of every shape *)

\* the longest location made of LocationLetters
MaxLocLen == 3

\* the letters of the alias Hue in both cases, and a space
LocationLetters == {"H", "h", "u", "e", " "}

\* the locations classified: every text of LocationLetters up to MaxLocLen, the names
\* of places inside and outside the region in several spellings, None and NaN
LocationInputs ==
    {Str(s) : s \in SeqsUpTo(LocationLetters, MaxLocLen)}
    \cup {Str(Singapore), Str(lower(Singapore)), Str(upper(KualaLumpur)),
          Str(<<"N","e","a","r"," ">> \o HoChiMinhCity), Str(SubSeq(HoChiMinhCity, 1, 11)),
          Str(NewYork), PyNone, NaN}

\* one call of validate_sea_country(location)
classify(location) ==
    /\ out' = [op |-> "validate_sea_country", count |-> 0, rows |-> <<>>,
               location |-> location, result |-> validate_sea_country(location)]
    /\ UNCHANGED <<jobs, seq, now, ipc, icaller, ijobs, ipos, itxn, itable, iseq,
                   inserted_count, skipped_count, ilog, iadded, isecond, icount0, runVars,
                   schedVars>>

NextClassify == \E location \in LocationInputs : classify(location)

SpecClassify == Init /\ [][NextClassify]_vars

----------------------------------------------------------------------------
(* utils/validation.py: sanitize_job_data on records of every shape *)

\* the raw records sanitized: the required fields alone, and with optional fields that
\* are missing, None, text, numbers, NaN, an int beyond the floats, booleans
SanitizeInputs ==
    {JobFull(indeed, <<"u","1">>, <<" ","A">>, company_name, location, Absent,
             min_amount, max_amount, is_remote) :
        company_name \in {Absent, PyNone, Str(<<"Z","e","d"," ">>)},
        location \in {Absent, Str(Singapore)},
        min_amount \in {Absent, PyNone, Num(1000), NaN, BigInt, Str(<<"a">>)},
        max_amount \in {Absent, Num(2000), BigInt},
        is_remote \in {Absent, PyBool(TRUE), Str(<<"y","e","s">>), Num(1), Num(2)}}

\* a key that is no column
UnknownKey == [unknown |-> Str(<<"x">>)]

\* one call of sanitize_job_data(job_data)
sanitize(job_data) ==
    /\ out' = [op |-> "sanitize_job_data", count |-> 0, rows |-> <<>>,
               job_data |-> job_data, result |-> sanitize_job_data(job_data)]
    /\ UNCHANGED <<jobs, seq, now, ipc, icaller, ijobs, ipos, itxn, itable, iseq,
                   inserted_count, skipped_count, ilog, iadded, isecond, icount0, runVars,
                   schedVars>>

NextSanitize ==
    \/ \E job_data \in SanitizeInputs : sanitize(job_data)
    \/ \E job_data \in SanitizeInputs : sanitize(UnknownKey @@ job_data)

SpecSanitize == Init /\ [][NextSanitize]_vars

----------------------------------------------------------------------------
(* Properties of the store *)

\* C1: in every reachable state the store, and the table as an open transaction of
\* insert_jobs sees it, hold at most one row for any (job_url, site) pair.
C1_UniqueUrlSite ==
    /\ \A r1, r2 \in jobs : SameKey(r1, r2) => r1 = r2
    /\ \A r1, r2 \in IView : SameKey(r1, r2) => r1 = r2

\* C1 witness: an insert_jobs call has met a stored (job_url, site) again and returned,
\* after a cleanup has deleted rows.
C1_Witness ==
    /\ ipc = "done"
    /\ jobs # {}
    /\ \E i \in DOMAIN ilog : ilog[i].outcome = "duplicate"
    /\ out.op = "cleanup_old_jobs"
    /\ out.count > 0

\* C2: when insert_jobs is called again with the same jobs_data right after it returned,
\* nothing else having run, the second call returns 0 and the row count is what it was
\* after the first call.
C2_SecondCallInsertsNothing ==
    (ipc = "done" /\ isecond) => (inserted_count = 0 /\ Cardinality(jobs) = icount0)

\* C2 witness: the second call of a two-record list has returned, and the store holds
\* a row of that list.
C2_Witness ==
    /\ ipc = "done"
    /\ isecond
    /\ Len(ijobs) = 2
    /\ \E r \in jobs : \E i \in DOMAIN ijobs :
          ~sanitize_job_data(ijobs[i]).raised /\ SameKey(r, sanitize_job_data(ijobs[i]).value)

\* C3: a step never changes a stored row: a row of the next state that has the id or the
\* (job_url, site) of a row of this state is that row, in the store and in the open
\* transaction; and processing a record whose (job_url, site) is stored changes no row.
C3_ExistingRowUnchanged ==
    [][/\ \A r \in jobs : \A s \in jobs' : (s.id = r.id \/ SameKey(r, s)) => s = r
       /\ (itxn /\ itxn') =>
             \A r \in itable : \A s \in itable' : (s.id = r.id \/ SameKey(r, s)) => s = r
       /\ (ipc = "loop" /\ ipos' = ipos + 1 /\ ilog'[ipos'].outcome = "duplicate")
             => IView' = IView]_vars

\* C3 witness: a record was ignored as a duplicate of a row stored earlier under
\* another title.
C3_Witness ==
    /\ ipos > 0
    /\ ilog[ipos].outcome = "duplicate"
    /\ \E r \in jobs :
          /\ SameKey(r, sanitize_job_data(ijobs[ipos]).value)
          /\ r.title # sanitize_job_data(ijobs[ipos]).value.title
          /\ r.scraped_at < now

\* C4: every stored row has a location the Location Classifier accepts.
C4_StoredLocationsPassClassifier ==
    \A r \in jobs : validate_sea_country(r.location).value

\* C7: an exception raised while one record is processed never leaves insert_jobs; when
\* the call returns every record has been processed and the returned inserted_count is
\* the number of rows the call added to the store.
C7_RecordFailureIsSkipped ==
    /\ ipc # "raised"
    /\ ipc = "done" =>
          /\ ipos = Len(ijobs)
          /\ Len(ilog) = Len(ijobs)
          /\ inserted_count = Cardinality(iadded)

\* C7 witness: a call has returned in which a record raised and the record after it
\* was inserted.
C7_Witness ==
    /\ ipc = "done"
    /\ \E i \in DOMAIN ilog :
          /\ i < Len(ilog)
          /\ ilog[i].outcome = "error"
          /\ ilog[i + 1].outcome = "inserted"
    /\ \E i \in DOMAIN ilog : ilog[i].outcome = "error" /\ sanitize_job_data(ijobs[i]).raised

\* the chunk of input position i, counting from 0
ChunkOf(i) == (i - 1) \div batch_size

\* the rows the call has committed are the rows inserted by the records of c whole
\* leading chunks, and every record processed after them belongs to chunk c
WholeChunksCommitted ==
    \E c \in 0..Len(ijobs) :
       /\ c * batch_size <= ipos
       /\ {r.id : r \in iadded} =
             {ilog[i].id : i \in {j \in 1..(c * batch_size) : ilog[j].outcome = "inserted"}}
       /\ \A i \in (c * batch_size + 1)..ipos : ChunkOf(i) = c

\* C6: when the process dies inside insert_jobs, the rows the call has committed are the
\* rows inserted by the records of some number of whole leading chunks, the records
\* processed after them all belong to one chunk, and the crash removes nothing from the
\* store.
C6_CrashKeepsWholeChunks ==
    [][(ipc # "crashed" /\ ipc' = "crashed") => (jobs' = jobs /\ WholeChunksCommitted')]_vars

\* C6 witness: the process died in the second chunk, after rows of that chunk were
\* inserted, and the first chunk's rows are in the store.
C6_Witness ==
    /\ ipc = "crashed"
    /\ ipos > batch_size
    /\ ilog[ipos].outcome = "inserted"
    /\ iadded # {}
    /\ iadded \subseteq jobs

\* C5: a step changes the store only by committing a batch of insert_jobs, which adds
\* rows and removes none, or by cleanup_old_jobs, which removes rows and adds none; and
\* no step changes a row; so search_jobs, get_statistics and get_filter_options leave the
\* store as it is.
C5_OnlyCleanupRemoves ==
    [][\/ jobs' = jobs
       \/ /\ ipc = "commit"
          /\ ipc' # "commit"
          /\ jobs \subseteq jobs'
       \/ /\ out'.op = "cleanup_old_jobs"
          /\ ipc' = ipc
          /\ jobs' \subseteq jobs
          /\ out'.count = Cardinality(jobs \ jobs')]_vars

\* C5 witness: a search has run on a store from which cleanup_old_jobs had removed a row
\* and to which insert_jobs had added one after that.
C5_Witness ==
    /\ out.op = "search_jobs"
    /\ out.count > 0
    /\ \E r \in jobs : r.id > 1 /\ r.scraped_at > 0
    /\ \A r \in jobs : r.id # 1
    /\ seq > 1

----------------------------------------------------------------------------
(* Properties of a run of the orchestrator *)

\* text that is empty or only whitespace, or no text at all
C8_Blank(v) == v.kind # "str" \/ \A i \in 1..Len(v.s) : IsSpace(v.s[i])

\* the text contains, ignoring case, the name of one of the countries
C8_NamesCountry(v) ==
    \E country \in Range(SEA_COUNTRY_KEYS) :
        \E k \in 0..(Len(v.s) - Len(country)) :
            \A i \in 1..Len(country) : ToLower(v.s[k + i]) = ToLower(country[i])

C8_BadParams ==
    \/ C8_Blank(rargs.search_term)
    \/ C8_Blank(rargs.location)
    \/ rargs.results_per_site <= 0
    \/ rargs.results_per_site > 200
    \/ ~C8_NamesCountry(rargs.location)

\* C8: a run raises the validation error exactly when search_term or location is empty
\* or blank, results_per_site is outside (0, 200], or location names none of the five
\* countries; a run that raised it scraped no site and never called insert_jobs
C8_ValidationErrorIffBadParams ==
    rpc # "idle" =>
        /\ C8_BadParams <=> (rpc = "raised" /\ rexc = "ValueError")
        /\ C8_BadParams => (rlog = <<>> /\ insert_calls = 0 /\ ipc = "idle")

C8_Witness ==
    /\ rpc = "raised"
    /\ rexc = "ValueError"
    /\ rargs.location = Str(Jakarta)
    /\ rargs.search_term = Str(dev)
    /\ rargs.results_per_site = 200
    /\ rargs.sites # <<>>

RECURSIVE C9_Concat(_)
C9_Concat(log) ==
    IF log = <<>> THEN <<>> ELSE Head(log).site_jobs \o C9_Concat(Tail(log))

C9_SomeScrapeFailed == \E k \in 1..Len(rlog) : rlog[k].scraped.kind = "raise"

\* C9: when the external scrape raises for a site of a run, the site counts as having
\* returned no records, all the sites of the list are still scraped, the records kept
\* from the other sites are what insert_jobs receives, and the run does not raise
C9_SiteFailureIsZeroRecords ==
    C9_SomeScrapeFailed =>
        /\ rpc # "raised"
        /\ \A k \in 1..Len(rlog) :
               rlog[k].scraped.kind = "raise" => rlog[k].site_jobs = <<>>
        /\ all_jobs = C9_Concat(rlog)
        /\ rpc \in {"summary", "insert", "returned"} =>
               /\ Len(rlog) = Len(rargs.sites)
               /\ \A k \in 1..Len(rlog) : rlog[k].site = rargs.sites[k]
        /\ rpc = "insert" => (insert_calls = 1 /\ ijobs = all_jobs)
        /\ rpc = "returned" => insert_calls = (IF all_jobs = <<>> THEN 0 ELSE 1)

C9_Witness ==
    /\ rpc = "returned"
    /\ Len(rlog) = 2
    /\ rlog[1].scraped.kind = "raise"
    /\ rlog[2].site_jobs # <<>>
    /\ insert_calls = 1
    /\ rret = 1

\* C10: a run that passed validation and ended with no surviving record (the empty site
\* list included) returned 0, did not raise and never called insert_jobs
C10_NoSurvivorsReturnsZero ==
    (rpc \in {"returned", "raised"} /\ rexc # "ValueError" /\ all_jobs = <<>>) =>
        (rpc = "returned" /\ rret = 0 /\ insert_calls = 0)

\* the location of the record is text that the classifier accepts
C11_Passes(job) ==
    /\ get(job, "location").kind = "str"
    /\ ~validate_sea_country(get(job, "location")).raised
    /\ validate_sea_country(get(job, "location")).value

RECURSIVE C11_Survivors(_)
\* the records the sites returned whose location passes, in site order
C11_Survivors(log) ==
    IF log = <<>> THEN <<>>
    ELSE SelectSeq(Head(log).scraped.records, C11_Passes) \o C11_Survivors(Tail(log))

\* C11: what a run hands to insert_jobs is exactly the records returned by the sites, in
\* site order, whose location passes the classifier
C11_SurvivorsAreHandedToInsert ==
    /\ rpc \in {"summary", "insert", "returned"} => all_jobs = C11_Survivors(rlog)
    /\ rpc = "insert" => ijobs = C11_Survivors(rlog)

----------------------------------------------------------------------------
(* Properties of the scheduler *)

\* the (country, search term) pairs of the configuration from country c, term t on
RECURSIVE C12_PairsFrom(_, _)
C12_PairsFrom(c, t) ==
    IF c > Len(SEA_SCRAPING_CONFIG) THEN <<>>
    ELSE IF t > Len(SEA_SCRAPING_CONFIG[c].search_terms) THEN C12_PairsFrom(c + 1, 1)
    ELSE <<[country |-> SEA_SCRAPING_CONFIG[c].country,
            search_term |-> SEA_SCRAPING_CONFIG[c].search_terms[t],
            location |-> SEA_SCRAPING_CONFIG[c].location,
            sites |-> SEA_SCRAPING_CONFIG[c].sites,
            results_per_site |-> 25,
            hours_old |-> 336]>> \o C12_PairsFrom(c, t + 1)

C12_Pairs == C12_PairsFrom(1, 1)

\* C12: run_daily_scraping calls scrape_jobs once for every (country, search term) pair
\* of the configuration, one at a time and in configuration order, with the country's
\* location, its sites and hours_old 336; a failed pair stops nothing and the routine
\* does not raise
C12_EveryPairOnceInOrder ==
    /\ dpc # "raised"
    /\ Len(dlog) <= Len(C12_Pairs)
    /\ dlog = SubSeq(C12_Pairs, 1, Len(dlog))
    /\ dpc = "returned" => dlog = C12_Pairs
    /\ dpc \in {"job", "term_delay", "country_delay", "summary", "returned"} =>
           (rpc = "idle" /\ total_jobs = Len(dlog))
    /\ dpc = "wait" =>
           /\ total_jobs = Len(dlog) - 1
           /\ rpc # "idle" =>
                  /\ rargs.search_term = Str(dlog[Len(dlog)].search_term)
                  /\ rargs.location = Str(dlog[Len(dlog)].location)
                  /\ rargs.sites = dlog[Len(dlog)].sites

C12_Witness ==
    /\ dpc = "returned"
    /\ dlog = C12_Pairs
    /\ failed_jobs = 2
    /\ successful_jobs = Len(C12_Pairs) - 2

\* C13: in run_daily_scraping total_jobs = successful_jobs + failed_jobs and no counter
\* decreases; the summary returned has total_jobs 16, the number of pairs, and
\* success_rate = successful_jobs / total_jobs * 100
C13_CountersAddUp ==
    [][/\ total_jobs' = successful_jobs' + failed_jobs'
       /\ total_jobs' >= total_jobs
       /\ successful_jobs' >= successful_jobs
       /\ failed_jobs' >= failed_jobs
       /\ dpc' = "returned" =>
              /\ dret'.total_jobs = 16
              /\ dret'.total_jobs = Len(C12_Pairs)
              /\ dret'.total_jobs = total_jobs'
              /\ dret'.successful_jobs = successful_jobs'
              /\ dret'.failed_jobs = failed_jobs'
              /\ dret'.success_rate.den # 0
              /\ dret'.success_rate.num * dret'.total_jobs =
                     dret'.successful_jobs * 100 * dret'.success_rate.den]_vars

C13_Witness ==
    /\ dpc = "returned"
    /\ dret.total_jobs = 16
    /\ dret.successful_jobs = 12
    /\ dret.failed_jobs = 4
    /\ dret.success_rate = [num |-> 1200, den |-> 16]

\* C14: run_weekly_maintenance and run_cleanup return normally whatever step of them
\* fails: no exception of store cleanup, log pruning, statistics or memory reclamation
\* reaches their caller
C14_MaintenanceNeverRaises ==
    /\ ~mout.raised
    /\ mout.op = "run_weekly_maintenance" => mout.fault \in WeeklyFaults
    /\ mout.op = "run_cleanup" => mout.fault \in CleanupFaults

C14_Witness ==
    /\ mout.op = "run_weekly_maintenance"
    /\ mout.fault = "get_statistics"
    /\ ~mout.raised
    /\ jobs = {}
    /\ seq > 0
    /\ log_files # {}

----------------------------------------------------------------------------
(* Properties of cleanup, search and statistics *)

\* C15: cleanup_old_jobs(days) deletes exactly the rows scraped more than `days` days
\* before the call, returns their number and leaves every other row in the store
C15_CleanupDeletesExactlyOlderThanDays ==
    [][(/\ out'.op = "cleanup_old_jobs"
        /\ isecond' = FALSE
        /\ UNCHANGED <<ipc, ipos, now, seq>>) =>
           /\ jobs \ jobs' = {r \in jobs : r.scraped_at + 24 * out'.days < now}
           /\ jobs' \subseteq jobs
           /\ out'.count = Cardinality(jobs \ jobs')]_vars


\* a step in which the search of SpecSearch counts the matching records
C16_Counted == out.op = "none" /\ out'.op = "search_jobs_count"

\* a step in which the search of SpecSearch returns its page
C16_Served == out.op = "search_jobs_count" /\ out'.op = "search_jobs"

\* the records of the store that match the filters of the search
C16_Matching == {r \in jobs : Where(r, out'.args.filters, out'.args.local_now)}

\* the number of rows page `page` of `total` rows holds at `per_page` rows a page,
\* pages counted from 1; no rows for a page size or a page below 1
C16_PageLength(total, page, per_page) ==
    IF per_page < 1 \/ page < 1 \/ total <= (page - 1) * per_page THEN 0
    ELSE min(per_page, total - (page - 1) * per_page)

\* C16: total_count is the number of records matching the filters whatever page and
\* page_size are, and a page of a page_size within max_results_per_request holds at
\* most page_size records: those of the 1-indexed page
C16_PageHoldsAtMostPageSize ==
    [][/\ C16_Counted => out'.count = Cardinality(C16_Matching)
       /\ C16_Served =>
              LET a == out'.args
              IN  a.per_page <= max_results_per_request =>
                     /\ Len(out'.rows) <= (IF a.per_page < 0 THEN 0 ELSE a.per_page)
                     /\ a.page >= 1 =>
                            Len(out'.rows) = C16_PageLength(Cardinality(C16_Matching),
                                                            a.page, a.per_page)]_vars

\* text contains part, ignoring case
C17_Contains(text, part) ==
    text.kind = "str" /\ Contains(lower(part.s), lower(text.s))

\* the record satisfies every filter that was supplied: substring match on title,
\* company and location, exact match on site and on the remote flag, either amount
\* at or above min_salary, either amount at or below max_salary, scraped within the
\* last days_old days
C17_Satisfies(r, filters, at) ==
    /\ filters.title.kind # "absent" => C17_Contains(Str(r.title), filters.title)
    /\ filters.company.kind # "absent" => C17_Contains(r.company_name, filters.company)
    /\ filters.location.kind # "absent" => C17_Contains(r.location, filters.location)
    /\ filters.site.kind # "absent" => r.site = filters.site.s
    /\ filters.is_remote.kind # "absent" =>
           r.is_remote = sanitize_is_remote(filters.is_remote)
    /\ filters.min_salary.kind # "absent" =>
           \E amount \in {r.min_amount, r.max_amount} :
               amount.kind = "num" /\ amount.n >= ParseNumber(filters.min_salary).value
    /\ filters.max_salary.kind # "absent" =>
           \E amount \in {r.min_amount, r.max_amount} :
               amount.kind = "num" /\ amount.n <= ParseNumber(filters.max_salary).value
    /\ filters.days_old.kind # "absent" =>
           r.scraped_at >= at - 24 * ParseNumber(filters.days_old).value

\* C17: a search matches exactly the records that satisfy every supplied filter: it
\* counts them all and returns none but them
C17_MatchesExactlySatisfying ==
    [][LET satisfying ==
               {r \in jobs : C17_Satisfies(r, out'.args.filters, out'.args.local_now)}
       IN  /\ C16_Counted => out'.count = Cardinality(satisfying)
           /\ C16_Served =>
                  \A i \in DOMAIN out'.rows : out'.rows[i] \in {r.id : r \in satisfying}]_vars

\* the field the request asks to sort by if it is one of the allowed, else scraped_at
C18_Field(filters) ==
    IF filters.sort_by.kind = "str" /\ filters.sort_by.s \in valid_sort_fields
    THEN filters.sort_by.s ELSE col_scraped_at

\* the request asks for ascending order
C18_Ascending(filters) ==
    filters.sort_order.kind = "str" /\ lower(filters.sort_order.s) = lower(ASC)

\* the stored record of an id
C18_Row(id) == CHOOSE r \in jobs : r.id = id

\* C18: whatever sort field and direction a request names, the search returns, and
\* its records are ordered by the requested field if that is in the allow-list and
\* by scraped_at if not, ascending if asked so and descending in every other case
C18_OrderedAsRequested ==
    [][(out.op # "search_jobs" /\ out'.op = "search_jobs"
        /\ out'.raised \notin {"ValueError", "TypeError"}) =>
          LET filters == out'.args.filters
              value(i) == Column(C18_Row(out'.rows[i]), C18_Field(filters))
          IN  /\ out'.raised = ""
              /\ \A i, j \in DOMAIN out'.rows : i < j =>
                     IF C18_Ascending(filters) THEN ~SqlLess(value(j), value(i))
                     ELSE ~SqlLess(value(i), value(j))]_vars

\* every salary aggregate of a stats dictionary is 0
C19_SalaryAggregatesZero(s) ==
    /\ s.salary_stats.avg_min_salary.num = 0
    /\ s.salary_stats.avg_max_salary.num = 0
    /\ s.salary_stats.min_salary = Num(0)
    /\ s.salary_stats.max_salary = Num(0)
    /\ s.salary_stats.jobs_with_salary = 0
    /\ s.salary_stats.percentage_with_salary.num = 0

\* C19: get_statistics never divides by zero; on an empty store its total_jobs is 0,
\* its remote_percentage is 0 and its salary aggregates are 0; and the salary
\* aggregates are all 0 whenever no record has a min_amount or a max_amount
C19_StatisticsNeverDivideByZero ==
    [][/\ stats'.raised = ""
       /\ (stats.pc = "idle" /\ stats'.pc = "country" /\ jobs = {}) =>
              stats'.total_jobs = 0
       /\ (stats.pc = "remote" /\ stats'.pc # "remote" /\ jobs = {}) =>
              stats'.remote_percentage.num = 0
       /\ (stats.pc = "salary" /\ stats'.pc # "salary"
              /\ \A r \in jobs : r.min_amount.kind # "num" /\ r.max_amount.kind # "num") =>
              C19_SalaryAggregatesZero(stats')]_vars

\* get_statistics has returned from a store that was empty at its first statement and
\* is empty
C19_Witness ==
    /\ stats.pc = "returned"
    /\ stats.total_jobs = 0
    /\ jobs = {}
    /\ C19_SalaryAggregatesZero(stats)

----------------------------------------------------------------------------
(* Properties of the location classifier *)

\* the aliases of the country-to-alias table: each country's name and cities
C20_Aliases ==
    {Indonesia, Jakarta, Surabaya, Bandung, Medan,
     Malaysia, KualaLumpur, Penang, JohorBahru, Selangor,
     Thailand, Bangkok, ChiangMai, Phuket, Pattaya,
     Vietnam, HoChiMinhCity, Hanoi, DaNang, Hue,
     Singapore}

\* C20: for a location that is text or null, is_sea_location returns true exactly when
\* the lower-cased location contains the lower-cased form of some alias, and false
\* when the location is empty or null
C20_TrueIffLocationContainsAlias ==
    (out.op = "validate_sea_country" /\ out.location.kind \in {"str", "none"}) =>
        /\ ~out.result.raised
        /\ out.result.value =
               /\ out.location.kind = "str"
               /\ \E alias \in C20_Aliases :
                      Contains(lower(alias), lower(out.location.s))
        /\ (out.location = PyNone \/ out.location = Str(<<>>)) =>
               out.result.value = FALSE

\* a location that holds an alias in another case than the table's was classified
C20_Witness ==
    /\ out.op = "validate_sea_country"
    /\ out.location = Str(<<"h", "u", "e">>)
    /\ out.result.value = TRUE

----------------------------------------------------------------------------
(* Properties of the sanitizer and of the HTTP API *)

\* the columns a sanitized record has
C21_Fields ==
    {"site", "job_url", "title", "company_name", "location", "date_posted",
     "min_amount", "max_amount", "is_remote"}

\* the raw record has the required fields only
C21_RequiredOnly(job_data) ==
    \A k \in C21_Fields \ {"site", "job_url", "title"} : job_data[k] = Absent

\* C21: sanitize_job_data never raises, its result has exactly the columns of the
\* schema whatever keys the input has, and for an input of site, job_url and title
\* alone it carries these three, every optional column null and is_remote 0
C21_SanitizeNeverRaises ==
    out.op = "sanitize_job_data" =>
        /\ ~out.result.raised
        /\ DOMAIN out.result.value = C21_Fields
        /\ C21_RequiredOnly(out.job_data) =>
               /\ out.result.value.site = strip(out.job_data.site.s)
               /\ out.result.value.job_url = strip(out.job_data.job_url.s)
               /\ out.result.value.title = strip(out.job_data.title.s)
               /\ \A k \in C21_Fields \ {"site", "job_url", "title", "is_remote"} :
                      out.result.value[k] = PyNone
               /\ out.result.value.is_remote = 0

\* the last request of SpecApi has been answered
C22_Answered == out.op \in {"trigger_scraping", "get_jobs", "search_jobs"}

\* the status and the error key of its response
C22_Response ==
    IF out.op = "trigger_scraping" THEN [status |-> out.status, error |-> out.error]
    ELSE get_jobs_response(out)

\* the value is given and is not a number
C22_Malformed(value) == value.kind # "absent" /\ ParseNumber(value).raised

\* the request failed on what the client supplied: no body, no search_term, results
\* that is not a number; page or per_page that is not a number, a malformed
\* min_salary, max_salary or days_old
C22_BadInput ==
    IF out.op = "trigger_scraping"
    THEN \/ out.data.kind # "dict"
         \/ ~Truthy(get(out.data, "search_term"))
         \/ out.data.results.kind = "none"
         \/ C22_Malformed(out.data.results)
    ELSE \/ out.op = "get_jobs"
         \/ C22_Malformed(out.args.filters.min_salary)
         \/ C22_Malformed(out.args.filters.max_salary)
         \/ C22_Malformed(out.args.filters.days_old)

\* C22: every error response carries an error key; its status is 400 whenever the
\* client supplied bad input, and 500 only for internal failures
C22_BadInputIs400 ==
    (C22_Answered /\ C22_Response.status # 200) =>
        /\ C22_Response.error # ""
        /\ C22_Response.status \in {400, 500}
        /\ C22_BadInput => C22_Response.status = 400
        /\ C22_Response.status = 500 => ~C22_BadInput

\* the parameters the body of a POST /api/scrape gives the scrape are invalid
C23_Invalid(data) ==
    /\ data.kind = "dict"
    /\ \/ body_results(data).raised
       \/ ~validate_search_params(get(data, "search_term"), body_location(data),
                                  body_results(data).value).is_valid

\* C23: a scrape request with invalid parameters has the validation error surfaced
\* to its caller before any external scrape call: the response of POST /api/scrape
\* carries the error, and a scrape that raised its validation error has scraped no site
C23_ValidationErrorInResponse ==
    /\ [][(out'.op = "trigger_scraping" /\ out.op = "none" /\ C23_Invalid(out'.data)) =>
             out'.status # 200 /\ out'.error # ""]_vars
    /\ []((rpc = "raised" /\ rexc = "ValueError") => rlog = <<>>)

\* C24: every operation of the store has closed its connection by the time control
\* leaves it, whether it returns or raises: so has a search that has ended
C24_ConnectionClosedOnExit ==
    out.op = "search_jobs" => out.conn_closed

\* C29: total_count and the page of one search describe the same state of the store,
\* even when an insert commits during the search: the page never holds more records
\* than total_count
C29_PageWithinTotalCount ==
    out.op = "search_jobs" => Len(out.rows) <= out.count

\* C25: the pauses between sites, between search terms and between countries last the
\* configured site, batch and country delay, whatever the environment sets these to
C25_PausesLastConfiguredDelays ==
    settings # PyNone =>
        /\ \A i \in DOMAIN pauses : pauses[i] = settings.site_delay
        /\ \A i \in DOMAIN delays :
              delays[i].seconds = IF delays[i].pause = "term" THEN settings.batch_delay
                                  ELSE settings.country_delay

\* the loop over the sites of the scrape has ended
C26_LoopEnded == rpc \in {"summary", "insert", "returned"}

\* C26: the sites are scraped one at a time in list order, with a pause after every
\* site but the last, n - 1 pauses for n sites and none for one site; insert_jobs is
\* called at most once per run, and only after the last site
C26_SitesInOrderPausesBetween ==
    LET n == Len(rargs.sites)
    IN  /\ Len(rlog) <= n
        /\ \A i \in DOMAIN rlog : rlog[i].site = rargs.sites[i]
        /\ rpc = "site" => (rsite = Len(rlog) + 1 /\ Len(pauses) = Len(rlog))
        /\ rpc = "pause" => Len(pauses) = Len(rlog) - 1
        /\ n >= 1 => Len(pauses) <= n - 1
        /\ (C26_LoopEnded /\ n >= 1) => (Len(rlog) = n /\ Len(pauses) = n - 1)
        /\ insert_calls <= 1
        /\ insert_calls = 1 => (Len(rlog) = n /\ rpc \in {"insert", "returned", "raised"})

\* a scrape of two sites has returned after one pause and one call of insert_jobs
C26_Witness ==
    /\ rpc = "returned"
    /\ rargs.sites = <<linkedin, indeed>>
    /\ Len(rlog) = 2
    /\ Len(pauses) = 1
    /\ insert_calls = 1

\* the location of the record is missing, empty or not text
C27_NoUsableLocation(job) ==
    \/ job.location.kind # "str"
    \/ job.location.s = <<>>

\* C27: a record whose location is missing, empty or not text is dropped by itself:
\* the other records a site returned in the same scrape are kept if their location
\* names a country of the region
C27_BadLocationDropsOnlyItself ==
    \A i \in DOMAIN rlog :
        LET records == rlog[i].scraped.records
        IN  \A k \in DOMAIN records :
               \/ C27_NoUsableLocation(records[k])
               \/ ~validate_sea_country(records[k].location).value
               \/ \E m \in DOMAIN rlog[i].site_jobs : rlog[i].site_jobs[m] = records[k]

\* a step in which run_scraping_job returns and the batch runner counts the pair
C30_PairCounted == dpc \in {"wait", "unknown"} /\ dpc' \notin {"wait", "unknown"}

\* C30: the batch runner counts a pair as failed exactly when its country is not in
\* the configuration or the run of scrape_jobs raised; the count scrape_jobs returns is
\* never negative, so a pair whose site scrapes all failed or which inserted nothing
\* is counted as succeeded
C30_FailedIffUnknownOrRaised ==
    /\ [][C30_PairCounted =>
             LET failed == \/ ~KnownCountry(SEA_SCRAPING_CONFIG[country_idx].country)
                           \/ rpc = "raised"
             IN  /\ total_jobs' = total_jobs + 1
                 /\ failed_jobs' = failed_jobs + (IF failed THEN 1 ELSE 0)
                 /\ successful_jobs' = successful_jobs + (IF failed THEN 0 ELSE 1)]_vars
    /\ [](rpc = "returned" => rret >= 0)

\* the first pair has been counted as succeeded with nothing inserted
C30_Witness ==
    /\ total_jobs = 1
    /\ successful_jobs = 1
    /\ failed_jobs = 0
    /\ jobs = {}
    /\ dpc = "term_delay"

\* both calls of insert_jobs have returned
C28_BothReturned == ipc = "done" /\ other.pc = "done"

\* the store holds a row with the key the record is stored under
C28_Stored(job_data) ==
    \E r \in jobs : SameKey(r, sanitize_job_data(job_data).value)

====
